---- MODULE Spec2Model ----
(***************************************************************************)
(* BitLogic SDK: the escrow client (escrow.ts), the proof generator        *)
(* (proof.ts) and the bridge client (bridge.ts) as one state machine.      *)
(*                                                                         *)
(* Every asynchronous method is cut at its awaits: the code between two    *)
(* awaits runs without interruption on the JavaScript event loop, so it is *)
(* one action; another call may run between two such actions.              *)
(***************************************************************************)
EXTENDS Integers, Sequences, FiniteSets, TLC

\* ------------------------------------------------------------------------
\* Bounds of the model
\* ------------------------------------------------------------------------
MaxTime == 2
MaxCalls == 3

\* ------------------------------------------------------------------------
\* Strings and JavaScript values
\*
\* A string is a triple <<kind, number, text>>, so that any two strings can
\* be compared: the empty string, the decimal form of a number, an escrow
\* identifier `escrow_<time>_<random>`, an address, a transaction reference.
\* ------------------------------------------------------------------------
EmptyStr == <<"", 0, "">>
Lit(text) == <<"lit", 0, text>>
NumStr(n) == <<"num", n, "">>

\* A value held in conditionData: a number or a string.
Num(n) == [t |-> "num", n |-> n, s |-> EmptyStr]
StrV(s) == [t |-> "str", n |-> 0, s |-> s]
\* true and false, as 1 and 0.
Bool(b) == [t |-> "bool", n |-> IF b THEN 1 ELSE 0, s |-> EmptyStr]

\* JavaScript truthiness of a number or a string (if (x) ...).
Truthy(v) == IF v.t \in {"num", "bool"} THEN v.n # 0 ELSE v.s # EmptyStr

\* x.toString() of a number; a string where the code pushes it as it is.
toStringOf(v) == IF v.t = "num" THEN NumStr(v.n) ELSE v.s

\* An object with insertion-ordered keys is a sequence of <<key, value>>.
Keys(obj) == {obj[i][1] : i \in 1..Len(obj)}
HasKey(obj, k) == k \in Keys(obj)
Get(obj, k) == obj[CHOOSE i \in 1..Len(obj) : obj[i][1] = k][2]

\* {...obj, k: v}: an existing key keeps its place and takes the new value.
Put(obj, k, v) ==
    IF HasKey(obj, k)
    THEN [i \in 1..Len(obj) |-> IF obj[i][1] = k THEN <<k, v>> ELSE obj[i]]
    ELSE Append(obj, <<k, v>>)

\* ------------------------------------------------------------------------
\* Proof strings
\*
\* Buffer.from(JSON.stringify(x)).toString('base64') wraps the payload; a
\* proof string is either such a wrapping, the base64 of a JSON text that is
\* no object (`null`, a number), or a literal text that is no base64 JSON.
\* Decoding unwraps and fails on a literal.
\* ------------------------------------------------------------------------
NoPayload == [circuitId |-> <<>>, witnessHash |-> <<>>, timestamp |-> 0, version |-> ""]
ToBase64Json(payload) == [b64json |-> TRUE, text |-> "", payload |-> payload]
Base64JsonText(text) == [b64json |-> TRUE, text |-> text, payload |-> NoPayload]
LiteralProof(text) == [b64json |-> FALSE, text |-> text, payload |-> NoPayload]
ProofLength(p) == IF p.b64json THEN 1 ELSE IF p.text = "" THEN 0 ELSE 1
\* JSON.parse(Buffer.from(p, 'base64').toString()): throws (ok = FALSE) or
\* gives an object, null, or a primitive value.
ParseBase64Json(p) ==
    IF p.b64json
    THEN [ok |-> TRUE,
          kind |-> IF p.text = "" THEN "object"
                   ELSE IF p.text = "null" THEN "null" ELSE "primitive",
          value |-> p.payload]
    ELSE [ok |-> FALSE, kind |-> "", value |-> NoPayload]

\* ------------------------------------------------------------------------
\* Proof Service (proof.ts)
\* ------------------------------------------------------------------------
ConditionTypes == {"TIME_LOCK", "ORACLE", "MULTI_SIG", "HASH_LOCK", "GOVERNANCE_VOTE", "CUSTOM"}

\* Array.prototype.sort() on the type tags: UTF-16 code unit order. The six
\* tags differ in their first letter, C < G < H < M < O < T.
TagRank(tag) ==
    CASE tag = "CUSTOM" -> 1
      [] tag = "GOVERNANCE_VOTE" -> 2
      [] tag = "HASH_LOCK" -> 3
      [] tag = "MULTI_SIG" -> 4
      [] tag = "ORACLE" -> 5
      [] tag = "TIME_LOCK" -> 6

RECURSIVE InsertSorted(_, _)
InsertSorted(tag, sorted) ==
    IF sorted = <<>> THEN <<tag>>
    ELSE IF TagRank(tag) <= TagRank(Head(sorted)) THEN <<tag>> \o sorted
    ELSE <<Head(sorted)>> \o InsertSorted(tag, Tail(sorted))

RECURSIVE SortTags(_)
SortTags(tags) ==
    IF tags = <<>> THEN <<>> ELSE InsertSorted(Head(tags), SortTags(Tail(tags)))

ToLowerCase(tag) ==
    CASE tag = "CUSTOM" -> "custom"
      [] tag = "GOVERNANCE_VOTE" -> "governance_vote"
      [] tag = "HASH_LOCK" -> "hash_lock"
      [] tag = "MULTI_SIG" -> "multi_sig"
      [] tag = "ORACLE" -> "oracle"
      [] tag = "TIME_LOCK" -> "time_lock"

\* determineCircuitId without the sort.
determineCircuitIdUnsorted(conditions) ==
    IF Len(conditions) = 0 THEN <<"generic_escrow_v1">>
    ELSE <<"circuit">> \o [i \in 1..Len(conditions) |-> ToLowerCase(conditions[i].type)]

\* `circuit_${types.sort().join('_').toLowerCase()}`: the joined text is kept
\* as the sequence of its parts (no two tag sequences join to the same text).
determineCircuitId(conditions) ==
    IF Len(conditions) = 0 THEN <<"generic_escrow_v1">>
    ELSE LET sorted == SortTags([i \in 1..Len(conditions) |-> conditions[i].type])
         IN <<"circuit">> \o [i \in 1..Len(sorted) |-> ToLowerCase(sorted[i])]

generateWitness(conditionData, t, nonce) ==
    Put(Put(conditionData, "timestamp", Num(t)), "nonce", StrV(Lit(nonce)))

\* Buffer.from(witness).toString('base64').slice(0, 32) covers the first 18
\* characters of the witness JSON: its first key and the start of its value.
WitnessHash(witness) == <<Head(witness)>>

\* createProof that embeds the generic identifier whatever the circuit.
createProofGenericCircuit(circuitId, witness, t) ==
    ToBase64Json([circuitId |-> <<"generic_escrow_v1">>, witnessHash |-> WitnessHash(witness),
                  timestamp |-> t, version |-> "1.0.0"])

createProof(circuitId, witness, t) ==
    ToBase64Json([circuitId |-> circuitId, witnessHash |-> WitnessHash(witness),
                  timestamp |-> t, version |-> "1.0.0"])

PublicFields == <<"timestamp", "escrowId", "beneficiary", "amount">>

RECURSIVE PushPublic(_, _)
PushPublic(conditionData, fields) ==
    IF fields = <<>> THEN <<>>
    ELSE LET k == Head(fields)
             rest == PushPublic(conditionData, Tail(fields))
         IN IF HasKey(conditionData, k) /\ Truthy(Get(conditionData, k))
            THEN <<toStringOf(Get(conditionData, k))>> \o rest
            ELSE rest

extractPublicInputs(conditionData) == PushPublic(conditionData, PublicFields)

\* generateProof without the escrowId check.
generateProofNoIdCheck(request, t, nonce) ==
    IF Len(request.conditionData) = 0
    THEN [ok |-> FALSE, error |-> "Condition data is required"]
    ELSE LET circuitId == determineCircuitId(request.conditions)
             witness == generateWitness(request.conditionData, t, nonce)
         IN [ok |-> TRUE,
             proof |-> createProof(circuitId, witness, t),
             publicInputs |-> extractPublicInputs(request.conditionData),
             verified |-> TRUE,
             timestamp |-> t,
             circuitId |-> circuitId]

\* generateProof(request) at time t with the random nonce: the attestation,
\* or the error it throws. A request without conditionData has the empty
\* object, one without conditions the empty list.
generateProof(request, t, nonce) ==
    IF request.escrowId = EmptyStr
    THEN [ok |-> FALSE, error |-> "Escrow ID is required"]
    ELSE IF Len(request.conditionData) = 0
    THEN [ok |-> FALSE, error |-> "Condition data is required"]
    ELSE LET circuitId == determineCircuitId(request.conditions)
             witness == generateWitness(request.conditionData, t, nonce)
         IN [ok |-> TRUE,
             proof |-> createProof(circuitId, witness, t),
             publicInputs |-> extractPublicInputs(request.conditionData),
             verified |-> TRUE,
             timestamp |-> t,
             circuitId |-> circuitId]

\* The Proof object generateProof resolves to; NoProof where it rejects.
NoProof == [proof |-> LiteralProof(""), publicInputs |-> <<>>, verified |-> FALSE,
            timestamp |-> 0, circuitId |-> <<>>]
ProofOf(generated) ==
    IF generated.ok
    THEN [proof |-> generated.proof, publicInputs |-> generated.publicInputs,
          verified |-> generated.verified, timestamp |-> generated.timestamp,
          circuitId |-> generated.circuitId]
    ELSE NoProof

\* The indices of the requests generateProof rejects.
Rejected(requests, t, nonce) ==
    {i \in 1..Len(requests) : ~generateProof(requests[i], t, nonce).ok}
RECURSIVE SelectAccepted(_, _, _)
SelectAccepted(requests, t, nonce) ==
    IF requests = <<>> THEN <<>>
    ELSE (IF generateProof(Head(requests), t, nonce).ok
          THEN <<ProofOf(generateProof(Head(requests), t, nonce))>> ELSE <<>>)
         \o SelectAccepted(Tail(requests), t, nonce)

\* batchGenerateProofs that returns the proofs of the requests it accepts.
batchGenerateProofsPartial(requests, t, nonce) ==
    [ok |-> TRUE, error |-> "", proofs |-> SelectAccepted(requests, t, nonce)]

\* batchGenerateProofs: Promise.all over the generateProof calls, started in
\* request order; it rejects with the first rejection, which is that of the
\* first rejected request, and else resolves to the proofs in request order.
batchGenerateProofs(requests, t, nonce) ==
    LET rejected == Rejected(requests, t, nonce)
    IN IF rejected # {}
       THEN [ok |-> FALSE,
             error |-> generateProof(requests[CHOOSE i \in rejected :
                                                \A j \in rejected : i <= j], t, nonce).error,
             proofs |-> <<>>]
       ELSE [ok |-> TRUE, error |-> "",
             proofs |-> [i \in 1..Len(requests) |->
                           ProofOf(generateProof(requests[i], t, nonce))]]

\* The body of performVerification's try block throws: JSON.parse on a text
\* that is no JSON, or the read of a member of null.
DecodeThrows(p) == ~ParseBase64Json(p).ok \/ ParseBase64Json(p).kind = "null"

\* performVerification that accepts whatever decodes.
performVerificationDecodeOnly(proof) == ~DecodeThrows(proof.proof)

\* proofData.circuitId === proof.circuitId, false when the try block throws;
\* a primitive has no member circuitId and undefined is no circuit identifier.
performVerification(proof) ==
    LET parsed == ParseBase64Json(proof.proof)
    IN IF DecodeThrows(proof.proof) THEN FALSE
       ELSE IF parsed.kind = "primitive" THEN FALSE
       ELSE parsed.value.circuitId = proof.circuitId

\* ProofGenerator.verifyProof without the two catch blocks.
ProofGeneratorVerifyProofNoCatch(proof) ==
    [raised |-> DecodeThrows(proof.proof), valid |-> performVerification(proof),
     error |-> "", gasEstimate |-> 250000]

\* ProofGenerator.verifyProof: performVerification has caught what its body
\* throws, so the catch block here is not entered.
ProofGeneratorVerifyProof(proof) ==
    [raised |-> FALSE, valid |-> performVerification(proof), error |-> "",
     gasEstimate |-> 250000]

\* ------------------------------------------------------------------------
\* Inputs: the parameter objects callers pass to createEscrow
\* ------------------------------------------------------------------------
NoAction == [given |-> FALSE, chain |-> "", contract |-> "", method |-> ""]
Action(chain, method) ==
    [given |-> TRUE, chain |-> chain, contract |-> "0xTrigger", method |-> method]
NoTimeout == [given |-> FALSE, value |-> 0]
Timeout(n) == [given |-> TRUE, value |-> n]
\* A condition (conditions.ts): the members validateCondition and
\* checkCondition read; a member that is absent is the empty string, the
\* empty list or 0.
NoInputs == [given |-> FALSE, value |-> <<>>]
Inputs(obj) == [given |-> TRUE, value |-> obj]
BaseCondition(type) ==
    [type |-> type, unlockAfter |-> "", source |-> "", condition |-> "", required |-> 0,
     signers |-> <<>>, currentSignatures |-> <<>>, hashAlgorithm |-> "", hash |-> "",
     preimage |-> "", proposalId |-> "", threshold |-> "", circuitId |-> "",
     inputs |-> NoInputs]
MultiSig(required, signers) ==
    [BaseCondition("MULTI_SIG") EXCEPT !.required = required, !.signers = signers]

\* Conditions.multiSig(required, signers): the condition, or the error thrown.
ConditionsMultiSig(required, signers) ==
    IF required > Len(signers)
    THEN [throws |-> TRUE, condition |-> BaseCondition("MULTI_SIG")]
    ELSE [throws |-> FALSE, condition |-> MultiSig(required, signers)]
\* A condition of the given type as the builders of Conditions make it.
Cond(type) ==
    CASE type = "TIME_LOCK" ->
           [BaseCondition(type) EXCEPT !.unlockAfter = "2030-01-01T00:00:00Z"]
      [] type = "ORACLE" ->
           [BaseCondition(type) EXCEPT !.source = "chainlink",
                                       !.condition = "BTC_PRICE > 100000"]
      [] type = "MULTI_SIG" -> MultiSig(2, <<"pk1", "pk2", "pk3">>)
      [] type = "HASH_LOCK" ->
           [BaseCondition(type) EXCEPT !.hashAlgorithm = "sha256", !.hash = "9f86d081"]
      [] type = "GOVERNANCE_VOTE" ->
           [BaseCondition(type) EXCEPT !.proposalId = "prop-1", !.threshold = "66%"]
      [] type = "CUSTOM" ->
           [BaseCondition(type) EXCEPT !.circuitId = "my_circuit",
                                       !.inputs = Inputs(<< <<"x", Num(1)>> >>)]

\* validateCondition (conditions.ts)
validateCondition(condition) ==
    CASE condition.type = "TIME_LOCK" -> condition.unlockAfter # ""
      [] condition.type = "ORACLE" -> condition.source # "" /\ condition.condition # ""
      [] condition.type = "MULTI_SIG" ->
           condition.required > 0 /\ Len(condition.signers) >= condition.required
      [] condition.type = "HASH_LOCK" -> condition.hash # "" /\ condition.hashAlgorithm # ""
      [] condition.type = "GOVERNANCE_VOTE" ->
           condition.proposalId # "" /\ condition.threshold # ""
      [] condition.type = "CUSTOM" -> condition.circuitId # ""
      [] OTHER -> FALSE

\* new Date(unlockAfter).getTime(), in seconds: NaN for a text that is no date.
DateGetTime(unlockAfter) ==
    CASE unlockAfter = "1970-01-01T00:00:01Z" -> [nan |-> FALSE, time |-> 1]
      [] unlockAfter = "1970-01-01T00:00:02Z" -> [nan |-> FALSE, time |-> 2]
      [] unlockAfter = "2030-01-01T00:00:00Z" -> [nan |-> FALSE, time |-> 1893456000]
      [] OTHER -> [nan |-> TRUE, time |-> 0]

\* checkCondition (conditions.ts) called at time t; `data` is the optional
\* second argument, the empty object when it is not given.
checkCondition(condition, data, t) ==
    CASE condition.type = "TIME_LOCK" ->
           LET unlockTime == DateGetTime(condition.unlockAfter)
           IN ~unlockTime.nan /\ t >= unlockTime.time
      [] condition.type = "ORACLE" -> HasKey(data, "oracleValue")
      [] condition.type = "MULTI_SIG" ->
           Len(condition.currentSignatures) >= condition.required
      [] condition.type = "HASH_LOCK" ->
           IF condition.preimage = "" THEN FALSE ELSE HasKey(data, "preimage")
      [] condition.type = "GOVERNANCE_VOTE" ->
           HasKey(data, "voteApproved") /\ Get(data, "voteApproved") = Bool(TRUE)
      [] condition.type = "CUSTOM" ->
           HasKey(data, "proofVerified") /\ Get(data, "proofVerified") = Bool(TRUE)
      [] OTHER -> FALSE

\* amount in whole BTC; `chain` is typed 'ethereum' | 'polygon' | 'arbitrum'
\* | 'base' but unchecked at run time, "solana" is a value outside the type.
\* The last three fail the validation of createEscrow; the one before them has
\* a timeout of 0, a MULTI_SIG condition that requires no signature and an
\* action for a chain whose endpoint has no default.
EscrowParamsSet ==
    { [amount |-> 5, beneficiary |-> Lit("addr1"), conditions |-> <<Cond("TIME_LOCK")>>,
       timeout |-> Timeout(1), crossChainAction |-> NoAction],
      [amount |-> 7, beneficiary |-> Lit("addr2"),
       conditions |-> <<Cond("ORACLE"), Cond("HASH_LOCK")>>,
       timeout |-> NoTimeout, crossChainAction |-> Action("ethereum", "mintNFT")],
      [amount |-> 5, beneficiary |-> Lit("addr1"), conditions |-> <<Cond("TIME_LOCK")>>,
       timeout |-> Timeout(1), crossChainAction |-> Action("solana", "release")],
      [amount |-> 0, beneficiary |-> Lit("addr1"), conditions |-> <<Cond("TIME_LOCK")>>,
       timeout |-> NoTimeout, crossChainAction |-> NoAction],
      [amount |-> 3, beneficiary |-> Lit("addr2"),
       conditions |-> <<MultiSig(0, <<"pk1", "pk2">>)>>,
       timeout |-> Timeout(0), crossChainAction |-> Action("polygon", "transfer")],
      [amount |-> 5, beneficiary |-> EmptyStr, conditions |-> <<Cond("TIME_LOCK")>>,
       timeout |-> NoTimeout, crossChainAction |-> NoAction],
      [amount |-> 5, beneficiary |-> Lit("addr1"), conditions |-> <<>>,
       timeout |-> NoTimeout, crossChainAction |-> NoAction] }

\* Math.random().toString(16).slice(2, 10): one of the 2^32 suffixes; two
\* draws may give the same suffix or different ones.
RandomSuffixes == {"a1b2c3d4", "e5f6a7b8"}
\* Math.floor(Math.random() * 10000): one of the token ids.
TokenIds == {41}

UnknownEscrowId == <<"escrow", 0, "none">>

\* ------------------------------------------------------------------------
\* The receiver contract BitLogicTrigger (BitLogicTrigger.sol)
\*
\* Accounts: the deployer, who is the owner; a user; a contract the owner
\* may authorize as relayer; a contract that is no relayer. A Solidity
\* mapping is a total function with default values.
\* ------------------------------------------------------------------------
MaxReceiverTxs == 3

ZeroAddress == "0x0"
Owner == "owner"
Accounts == {Owner, "user", "relayerContract", "plainContract"}
Contracts == {"relayerContract", "plainContract"}
ReceiverEscrowIds == {"id1", "id2"}
\* The token ids that can come to exist in MaxReceiverTxs transactions.
ReceiverTokenIds == 0..(2 * MaxReceiverTxs)

NoEscrowRecord == [escrowId |-> "", beneficiary |-> ZeroAddress, amount |-> 0,
                   releasedAt |-> 0, tokenId |-> 0, executed |-> FALSE]

\* The storage after the constructor: _tokenIdCounter, ERC721's _owners,
\* escrowRecords, userEscrows, authorizedRelayers.
Deployed ==
    [tokenIdCounter |-> 0,
     owners |-> [tokenId \in ReceiverTokenIds |-> ZeroAddress],
     escrowRecords |-> [escrowId \in ReceiverEscrowIds |-> NoEscrowRecord],
     userEscrows |-> [a \in Accounts \cup {ZeroAddress} |-> <<>>],
     authorizedRelayers |-> {Owner}]

\* The outcome of a call: reverted with the storage as it was, or returned
\* with the new storage; `done` lists the onEscrowReleased and executeAction
\* calls that returned within it and `minted` the NFTMinted events emitted.
Reverted(st) == [ok |-> FALSE, st |-> st, tokenId |-> 0, done |-> <<>>, minted |-> <<>>]
Returned(st, tokenId, done, minted) ==
    [ok |-> TRUE, st |-> st, tokenId |-> tokenId, done |-> done, minted |-> minted]

\* modifier onlyAuthorizedRelayer
IsAuthorizedRelayer(st, sender) == sender \in st.authorizedRelayers \/ sender = Owner

\* ERC721._mint: reverts for the zero address and for a token that exists.
Mint(st, to, tokenId) ==
    IF to = ZeroAddress \/ st.owners[tokenId] # ZeroAddress THEN Reverted(st)
    ELSE Returned([st EXCEPT !.owners[tokenId] = to], tokenId, <<>>, <<>>)

\* What the receiving contract does in onERC721Received, called by _safeMint
\* after the token is minted: accept, refuse, or first call back into the
\* trigger. An account that is no contract is not called.
Accept == [kind |-> "accept", escrowId |-> "", beneficiary |-> ZeroAddress]
Refuse == [kind |-> "refuse", escrowId |-> "", beneficiary |-> ZeroAddress]
Reenter(fn, escrowId, beneficiary) ==
    [kind |-> fn, escrowId |-> escrowId, beneficiary |-> beneficiary]
Reactions(to) ==
    IF to \notin Contracts THEN {Accept}
    ELSE IF to = "plainContract" THEN {Accept, Refuse}
    ELSE {Accept, Refuse}
         \cup {Reenter("onEscrowReleased", id, "user") : id \in ReceiverEscrowIds}
         \cup {Reenter("executeAction", id, ZeroAddress) : id \in ReceiverEscrowIds}

\* executeAction(escrowId, actionType, actionData) sent by `sender`.
executeAction(st, sender, escrowId) ==
    IF ~IsAuthorizedRelayer(st, sender) THEN Reverted(st)
    ELSE IF st.escrowRecords[escrowId].executed THEN Reverted(st)
    ELSE Returned([st EXCEPT !.escrowRecords[escrowId].executed = TRUE], 0,
                  << <<"executeAction", escrowId>> >>, <<>>)

\* The rest of onEscrowReleased after _safeMint has returned on storage st.
RecordEscrow(st, escrowId, beneficiary, btcAmount, t, tokenId) ==
    [st EXCEPT !.escrowRecords[escrowId] =
                   [escrowId |-> escrowId, beneficiary |-> beneficiary, amount |-> btcAmount,
                    releasedAt |-> t, tokenId |-> tokenId, executed |-> TRUE],
               !.userEscrows[beneficiary] = Append(@, escrowId)]

\* onEscrowReleased called by the receiving contract from its
\* onERC721Received; its own beneficiary is an account that is not called.
onEscrowReleasedNested(st, sender, escrowId, beneficiary, btcAmount, t) ==
    IF ~IsAuthorizedRelayer(st, sender) THEN Reverted(st)
    ELSE IF st.escrowRecords[escrowId].executed THEN Reverted(st)
    ELSE LET tokenId == st.tokenIdCounter
             m == Mint([st EXCEPT !.tokenIdCounter = @ + 1], beneficiary, tokenId)
         IN IF ~m.ok THEN Reverted(st)
            ELSE Returned(RecordEscrow(m.st, escrowId, beneficiary, btcAmount, t, tokenId),
                          tokenId, << <<"onEscrowReleased", escrowId>> >>,
                          << <<escrowId, tokenId>> >>)

\* ERC721._safeMint(to, tokenId): _mint, then onERC721Received on a
\* receiving contract; a refusal, or a failed call of the receiver, reverts.
safeMint(st, to, tokenId, reaction, btcAmount, t) ==
    LET m == Mint(st, to, tokenId)
    IN IF ~m.ok THEN Reverted(st)
       ELSE CASE reaction.kind = "accept" -> m
              [] reaction.kind = "refuse" -> Reverted(st)
              [] reaction.kind = "executeAction" ->
                   LET n == executeAction(m.st, to, reaction.escrowId)
                   IN IF n.ok THEN n ELSE Reverted(st)
              [] reaction.kind = "onEscrowReleased" ->
                   LET n == onEscrowReleasedNested(m.st, to, reaction.escrowId,
                                                   reaction.beneficiary, btcAmount, t)
                   IN IF n.ok THEN n ELSE Reverted(st)

\* onEscrowReleased(escrowId, beneficiary, btcAmount, tokenURI) sent by
\* `sender` at block time t.
onEscrowReleased(st, sender, escrowId, beneficiary, btcAmount, t, reaction) ==
    IF ~IsAuthorizedRelayer(st, sender) THEN Reverted(st)
    ELSE IF st.escrowRecords[escrowId].executed THEN Reverted(st)
    ELSE LET tokenId == st.tokenIdCounter
             m == safeMint([st EXCEPT !.tokenIdCounter = @ + 1], beneficiary, tokenId,
                           reaction, btcAmount, t)
         IN IF ~m.ok THEN Reverted(st)
            ELSE Returned(RecordEscrow(m.st, escrowId, beneficiary, btcAmount, t, tokenId),
                          tokenId,
                          m.done \o << <<"onEscrowReleased", escrowId>> >>,
                          m.minted \o << <<escrowId, tokenId>> >>)

\* mintNFT(recipient, tokenId, tokenURI) sent by `sender`.
mintNFT(st, sender, recipient, tokenId, reaction, t) ==
    IF ~IsAuthorizedRelayer(st, sender) THEN Reverted(st)
    ELSE safeMint(st, recipient, tokenId, reaction, 0, t)

\* addRelayer, removeRelayer: onlyOwner.
addRelayer(st, sender, relayer) ==
    IF sender # Owner THEN Reverted(st)
    ELSE Returned([st EXCEPT !.authorizedRelayers = @ \cup {relayer}], 0, <<>>, <<>>)
removeRelayer(st, sender, relayer) ==
    IF sender # Owner THEN Reverted(st)
    ELSE Returned([st EXCEPT !.authorizedRelayers = @ \ {relayer}], 0, <<>>, <<>>)

\* The views.
isEscrowProcessed(st, escrowId) == st.escrowRecords[escrowId].executed
totalMinted(st) == st.tokenIdCounter

\* The transactions so far: their number, per escrowId the onEscrowReleased
\* and executeAction calls that returned and the NFTMinted events, the
\* transactions in which the receiving contract called back into the trigger,
\* and the latest transaction with what held when it was sent.
NoTransaction ==
    [fn |-> "", sender |-> ZeroAddress, escrowId |-> "", beneficiary |-> ZeroAddress,
     reaction |-> Accept, authorized |-> FALSE, processed |-> FALSE, ok |-> FALSE]
NoTransactions ==
    [txs |-> 0,
     returned |-> [escrowId \in ReceiverEscrowIds |-> 0],
     minted |-> [escrowId \in ReceiverEscrowIds |-> 0],
     reentries |-> 0,
     last |-> NoTransaction]

\* ------------------------------------------------------------------------
\* State
\* ------------------------------------------------------------------------
VARIABLES
    now,         \* Date.now(), in seconds
    paramObjs,   \* the EscrowParams objects of the createEscrow calls, by call
    heap,        \* the Escrow objects allocated by createEscrow, in order
    escrows,     \* EscrowClient.escrows: escrow id -> index of its object in heap
    creates,     \* the createEscrow calls, started in this order
    releases,    \* the executeRelease calls, started in this order
    lastRefund,  \* the refundEscrow calls so far and the outcome of the latest
    spends,      \* per Escrow object: spendEscrowUTXO invocations
    refunds,     \* per Escrow object: refund transactions issued
    triggers,    \* per Escrow object: triggerCrossChainAction invocations
    proofCalls,  \* the ProofGenerator.generateProof calls, in order
    verifyCalls, \* the ProofGenerator.verifyProof calls, in order
    batchCalls,  \* the ProofGenerator.batchGenerateProofs calls, in order
    checkCalls,  \* the checkCondition calls, in order
    validateCalls, \* the validateCondition calls, in order
    multiSigCalls, \* the Conditions.multiSig calls, in order
    facadeCalls,   \* the BitLogic.executeWithProof calls, in order
    trigger,       \* the storage of the BitLogicTrigger contract
    receiver       \* the transactions sent to BitLogicTrigger: counts and the latest

\* The calls of the stateless services: the proof generator and the
\* condition model.
serviceVars == <<proofCalls, verifyCalls, batchCalls, checkCalls, validateCalls,
                 multiSigCalls, facadeCalls>>

\* The receiver contract and its transactions.
receiverVars == <<trigger, receiver>>

vars == <<now, paramObjs, heap, escrows, creates, releases, lastRefund,
          spends, refunds, triggers, proofCalls, verifyCalls, batchCalls, checkCalls,
          validateCalls, multiSigCalls, facadeCalls, trigger, receiver>>

NoUtxo == [txid |-> EmptyStr, vout |-> 0, value |-> 0, scriptPubKey |-> EmptyStr]
NoCross == [txHash |-> EmptyStr, status |-> "", hasTokenId |-> FALSE, tokenId |-> 0,
            error |-> ""]
NoReturn == [btcTxId |-> EmptyStr, ethTxId |-> EmptyStr, hasEthTxId |-> FALSE,
             status |-> "", hasNftTokenId |-> FALSE, nftTokenId |-> 0]

Init ==
    /\ now = 1
    /\ paramObjs = <<>>
    /\ heap = <<>>
    /\ escrows = <<>>
    /\ creates = <<>>
    /\ releases = <<>>
    /\ lastRefund = [called |-> 0, escrowId |-> EmptyStr, error |-> "", txId |-> EmptyStr]
    /\ spends = <<>>
    /\ refunds = <<>>
    /\ triggers = <<>>
    /\ proofCalls = <<>>
    /\ verifyCalls = <<>>
    /\ batchCalls = <<>>
    /\ checkCalls = <<>>
    /\ validateCalls = <<>>
    /\ multiSigCalls = <<>>
    /\ facadeCalls = <<>>
    /\ trigger = Deployed
    /\ receiver = NoTransactions

\* The calls issued so far: createEscrow, executeRelease and refundEscrow.
Calls == Len(creates) + Len(releases) + lastRefund.called

\* Map.set(id, value), Map.get(id)
MapSet(map, id, value) ==
    [x \in DOMAIN map \cup {id} |-> IF x = id THEN value ELSE map[x]]
MapHas(map, id) == id \in DOMAIN map

\* The wall clock advances.
Tick ==
    /\ now < MaxTime
    /\ now' = now + 1
    /\ UNCHANGED <<paramObjs, heap, escrows, creates, releases, lastRefund,
                   spends, refunds, triggers>>
    /\ UNCHANGED <<serviceVars, receiverVars>>

\* ------------------------------------------------------------------------
\* EscrowClient.createEscrow (escrow.ts)
\* ------------------------------------------------------------------------
generateEscrowId(t, suffix) == <<"escrow", t, suffix>>

createEscrowUTXO(params, t) ==
    [txid |-> <<"tx", t, "">>, vout |-> 0, value |-> params.amount * 100000000,
     scriptPubKey |-> <<"charms_script", 0, params.beneficiary[3]>>]

\* 'scripthash_' + the first 16 base64 characters of JSON.stringify(conditions):
\* the first 12 characters of the JSON, `[{"type":"` and two letters of the
\* first condition's type tag.
generateScriptHash(conditions) == <<"scripthash", 0, conditions[1].type>>

\* CreateValidationError without the amount check.
CreateValidationErrorNoAmountCheck(params) ==
    IF params.beneficiary = EmptyStr THEN "Beneficiary address is required"
    ELSE IF Len(params.conditions) = 0 THEN "At least one condition is required"
    ELSE ""

CreateValidationError(params) ==
    IF params.amount <= 0 THEN "Escrow amount must be positive"
    ELSE IF params.beneficiary = EmptyStr THEN "Beneficiary address is required"
    ELSE IF Len(params.conditions) = 0 THEN "At least one condition is required"
    ELSE ""

\* createEscrow up to its first await: validation, the identifier, and the
\* call of createEscrowUTXO.
CreateStart(params, suffix) ==
    /\ Calls < MaxCalls
    /\ paramObjs' = Append(paramObjs, params)
    /\ LET err == CreateValidationError(params)
       IN creates' = Append(creates,
            IF err # ""
            THEN [pc |-> "done", error |-> err, escrowId |-> EmptyStr, utxo |-> NoUtxo,
                  scriptHash |-> EmptyStr, escrow |-> 0, given |-> params]
            ELSE [pc |-> "awaitUTXO", error |-> "",
                  escrowId |-> generateEscrowId(now, suffix),
                  utxo |-> createEscrowUTXO(params, now),
                  scriptHash |-> EmptyStr, escrow |-> 0, given |-> params])
    /\ UNCHANGED <<now, heap, escrows, releases, lastRefund, spends, refunds, triggers>>
    /\ UNCHANGED <<serviceVars, receiverVars>>

\* Resumes after createEscrowUTXO and calls generateScriptHash.
CreateHash(k) ==
    /\ k \in 1..Len(creates)
    /\ creates[k].pc = "awaitUTXO"
    /\ creates' = [creates EXCEPT ![k].pc = "awaitHash",
                     ![k].scriptHash = generateScriptHash(paramObjs[k].conditions)]
    /\ UNCHANGED <<now, paramObjs, heap, escrows, releases, lastRefund,
                   spends, refunds, triggers>>
    /\ UNCHANGED <<serviceVars, receiverVars>>

\* CreateStore with the record stored as pending.
CreateStorePending(k) ==
    /\ k \in 1..Len(creates)
    /\ creates[k].pc = "awaitHash"
    /\ heap' = Append(heap, [id |-> creates[k].escrowId, utxo |-> creates[k].utxo,
                             scriptHash |-> creates[k].scriptHash, status |-> "pending",
                             createdAt |-> now, params |-> k])
    /\ escrows' = MapSet(escrows, creates[k].escrowId, Len(heap) + 1)
    /\ creates' = [creates EXCEPT ![k].pc = "done", ![k].escrow = Len(heap) + 1]
    /\ spends' = Append(spends, 0)
    /\ refunds' = Append(refunds, 0)
    /\ triggers' = Append(triggers, 0)
    /\ UNCHANGED <<now, paramObjs, releases, lastRefund>>
    /\ UNCHANGED <<serviceVars, receiverVars>>

\* Resumes after generateScriptHash: builds the record, stores and returns it.
CreateStore(k) ==
    /\ k \in 1..Len(creates)
    /\ creates[k].pc = "awaitHash"
    /\ heap' = Append(heap, [id |-> creates[k].escrowId, utxo |-> creates[k].utxo,
                             scriptHash |-> creates[k].scriptHash, status |-> "active",
                             createdAt |-> now, params |-> k])
    /\ escrows' = MapSet(escrows, creates[k].escrowId, Len(heap) + 1)
    /\ creates' = [creates EXCEPT ![k].pc = "done", ![k].escrow = Len(heap) + 1]
    /\ spends' = Append(spends, 0)
    /\ refunds' = Append(refunds, 0)
    /\ triggers' = Append(triggers, 0)
    /\ UNCHANGED <<now, paramObjs, releases, lastRefund>>
    /\ UNCHANGED <<serviceVars, receiverVars>>

\* The parameters stored with an Escrow object (escrow.params).
ParamsOf(e) == paramObjs[heap[e].params]

\* ------------------------------------------------------------------------
\* BridgeClient (bridge.ts)
\* ------------------------------------------------------------------------
\* new BridgeClient(): only the Ethereum endpoint has a default.
DefaultRelayerConfig ==
    [ethereumRpc |-> "https://sepolia.infura.io/v3/YOUR_KEY", polygonRpc |-> "",
     arbitrumRpc |-> "", baseRpc |-> ""]

getRpcUrl(config, chain) ==
    CASE chain = "ethereum" -> [throws |-> FALSE, url |-> config.ethereumRpc]
      [] chain = "polygon" -> [throws |-> FALSE, url |-> config.polygonRpc]
      [] chain = "arbitrum" -> [throws |-> FALSE, url |-> config.arbitrumRpc]
      [] chain = "base" -> [throws |-> FALSE, url |-> config.baseRpc]
      [] OTHER -> [throws |-> TRUE, url |-> ""]

\* executeOnChain: the simulated receipt (blockNumber, a random number nothing
\* reads, is left out).
executeOnChain(action, rpcUrl, t, suffix, tokenId) ==
    [txHash |-> <<"0x", t, suffix>>, status |-> "confirmed",
     hasTokenId |-> action.method \in {"mintNFT", "mint"},
     tokenId |-> IF action.method \in {"mintNFT", "mint"} THEN tokenId ELSE 0,
     error |-> ""]

\* What triggerAction's catch block returns.
FailedResult(message) ==
    [txHash |-> EmptyStr, status |-> "failed", hasTokenId |-> FALSE, tokenId |-> 0,
     error |-> message]

\* The EventMessage triggerAction builds and its key in pendingActions.
EventMessage(action, escrowId, proof, t) ==
    [sourceChain |-> "bitcoin", targetChain |-> action.chain, escrowId |-> escrowId,
     proof |-> proof, timestamp |-> t]
ActionId(escrowId, t) == <<escrowId, t>>

\* getActionStatus on a client whose registry is `pending`: null or a
\* pending result.
getActionStatus(pending, actionId) ==
    IF actionId \notin pending THEN [isNull |-> TRUE, txHash |-> <<>>, status |-> ""]
    ELSE [isNull |-> FALSE, txHash |-> <<"pending", actionId>>, status |-> "pending"]

\* triggerCrossChainAction(action, escrowId?, proof?): the defaults of the
\* two optional arguments.
UnknownEscrowText == Lit("unknown")
NoEvent == [sourceChain |-> "", targetChain |-> "", escrowId |-> EmptyStr,
            proof |-> LiteralProof(""), timestamp |-> 0]

\* ------------------------------------------------------------------------
\* EscrowClient.executeRelease (escrow.ts)
\* ------------------------------------------------------------------------
\* EscrowClient.verifyProof
verifyProof(proof, publicInputs) == ProofLength(proof) > 0 /\ Len(publicInputs) > 0

spendEscrowUTXO(t) == <<"btc_tx", t, "">>

\* The attestations a caller may hold: generated by generateProof for a stored
\* escrow from its public fields, generated from witness data that has none of
\* the public fields, a text that is no proof, and the empty string.
PublicConditionData(e, t) ==
    << <<"timestamp", Num(t)>>, <<"escrowId", StrV(heap[e].id)>>,
       <<"beneficiary", StrV(ParamsOf(e).beneficiary)>>,
       <<"amount", Num(ParamsOf(e).amount)>> >>
PrivateConditionData == << <<"oracleValue", Num(1)>> >>

AttestationOf(generated) ==
    [proof |-> generated.proof, publicInputs |-> generated.publicInputs,
     circuitId |-> generated.circuitId]

\* What generateProof returns at time t for the escrows stored so far.
GeneratedAttestations(t) ==
    LET gen(e, data) ==
            generateProof([escrowId |-> heap[e].id, conditionData |-> data,
                           conditions |-> ParamsOf(e).conditions], t, "9f3c")
    IN {AttestationOf(gen(e, PublicConditionData(e, t))) : e \in 1..Len(heap)}
       \cup {AttestationOf(gen(e, PrivateConditionData)) : e \in 1..Len(heap)}

\* Attestations no generateProof call returned.
ForgedAttestations ==
    {[proof |-> LiteralProof("not a proof"), publicInputs |-> <<Lit("x")>>,
      circuitId |-> <<"circuit", "time_lock">>],
     [proof |-> LiteralProof(""), publicInputs |-> <<Lit("x")>>,
      circuitId |-> <<"circuit", "time_lock">>]}

Attestations == GeneratedAttestations(now) \cup ForgedAttestations

NewRelease(escrowId, att) ==
    [pc |-> "done", escrowId |-> escrowId, proof |-> att.proof,
     publicInputs |-> att.publicInputs, circuitId |-> att.circuitId,
     escrow |-> 0, error |-> "", isValid |-> FALSE, btcTxId |-> EmptyStr,
     pendingActions |-> {}, event |-> NoEvent, cross |-> NoCross, ret |-> NoReturn]

\* executeRelease up to its first await: the lookup, the status guard and the
\* call of verifyProof. `att` is the attestation the caller takes proof and
\* publicInputs from; only those two reach the method.
executeReleaseStart(escrowId, att) ==
    IF ~MapHas(escrows, escrowId)
    THEN [NewRelease(escrowId, att) EXCEPT !.error = "Escrow not found"]
    ELSE IF heap[escrows[escrowId]].status # "active"
    THEN [NewRelease(escrowId, att) EXCEPT !.error = "Escrow is not active",
                                           !.escrow = escrows[escrowId]]
    ELSE [NewRelease(escrowId, att) EXCEPT !.pc = "awaitVerify",
             !.escrow = escrows[escrowId],
             !.isValid = verifyProof(att.proof, att.publicInputs)]

ReleaseStart(escrowId, att) ==
    /\ Calls < MaxCalls
    /\ releases' = Append(releases, executeReleaseStart(escrowId, att))
    /\ UNCHANGED <<now, paramObjs, heap, escrows, creates, lastRefund,
                   spends, refunds, triggers>>
    /\ UNCHANGED <<serviceVars, receiverVars>>

\* ReleaseAfterVerify with the spend moved before the validity check.
ReleaseAfterVerifySpendFirst(c) ==
    /\ c \in 1..Len(releases)
    /\ releases[c].pc = "awaitVerify"
    /\ spends' = [spends EXCEPT ![releases[c].escrow] = @ + 1]
    /\ releases' = IF ~releases[c].isValid
                   THEN [releases EXCEPT ![c].pc = "done", ![c].error = "Invalid ZK proof"]
                   ELSE [releases EXCEPT ![c].pc = "awaitSpend",
                                         ![c].btcTxId = spendEscrowUTXO(now)]
    /\ UNCHANGED <<now, paramObjs, heap, escrows, creates, lastRefund, refunds, triggers>>
    /\ UNCHANGED <<serviceVars, receiverVars>>

\* ReleaseAfterVerify with the status set when the spend is issued, before it
\* is confirmed.
ReleaseAfterVerifyStatusFirst(c) ==
    /\ c \in 1..Len(releases)
    /\ releases[c].pc = "awaitVerify"
    /\ IF ~releases[c].isValid
       THEN /\ releases' = [releases EXCEPT ![c].pc = "done",
                                            ![c].error = "Invalid ZK proof"]
            /\ UNCHANGED <<spends, heap>>
       ELSE /\ releases' = [releases EXCEPT ![c].pc = "awaitSpend",
                                            ![c].btcTxId = spendEscrowUTXO(now)]
            /\ spends' = [spends EXCEPT ![releases[c].escrow] = @ + 1]
            /\ heap' = [heap EXCEPT ![releases[c].escrow].status = "released"]
    /\ UNCHANGED <<now, paramObjs, escrows, creates, lastRefund, refunds, triggers>>
    /\ UNCHANGED <<serviceVars, receiverVars>>

\* Resumes after verifyProof: throws on an invalid proof, else calls
\* spendEscrowUTXO.
ReleaseAfterVerify(c) ==
    /\ c \in 1..Len(releases)
    /\ releases[c].pc = "awaitVerify"
    /\ IF ~releases[c].isValid
       THEN /\ releases' = [releases EXCEPT ![c].pc = "done",
                                            ![c].error = "Invalid ZK proof"]
            /\ UNCHANGED spends
       ELSE /\ releases' = [releases EXCEPT ![c].pc = "awaitSpend",
                                            ![c].btcTxId = spendEscrowUTXO(now)]
            /\ spends' = [spends EXCEPT ![releases[c].escrow] = @ + 1]
    /\ UNCHANGED <<now, paramObjs, heap, escrows, creates, lastRefund, refunds, triggers>>
    /\ UNCHANGED <<serviceVars, receiverVars>>

ReleaseReturnValue(r, cross, triggered) ==
    [btcTxId |-> r.btcTxId, ethTxId |-> cross.txHash, hasEthTxId |-> triggered,
     status |-> "success", hasNftTokenId |-> cross.hasTokenId, nftTokenId |-> cross.tokenId]

\* ReleaseAfterSpend with a triggerAction that lets the error of getRpcUrl
\* escape.
ReleaseAfterSpendTriggerThrows(c, suffix, tokenId) ==
    /\ c \in 1..Len(releases)
    /\ releases[c].pc = "awaitSpend"
    /\ LET r == releases[c]
           e == r.escrow
           action == ParamsOf(e).crossChainAction
           rpc == getRpcUrl(DefaultRelayerConfig, action.chain)
       IN /\ heap' = [heap EXCEPT ![e].status = "released"]
          /\ IF ~action.given
             THEN /\ releases' = [releases EXCEPT ![c].pc = "done",
                                     ![c].ret = ReleaseReturnValue(r, NoCross, FALSE)]
                  /\ UNCHANGED triggers
             ELSE /\ triggers' = [triggers EXCEPT ![e] = @ + 1]
                  /\ releases' = [releases EXCEPT
                        ![c].pc = IF rpc.throws THEN "done" ELSE "awaitChain",
                        ![c].error = IF rpc.throws THEN "Unsupported chain" ELSE "",
                        ![c].event = EventMessage(action, UnknownEscrowText,
                                                  LiteralProof(""), now),
                        ![c].pendingActions = {ActionId(UnknownEscrowText, now)},
                        ![c].cross = IF rpc.throws THEN NoCross
                                     ELSE executeOnChain(action, rpc.url, now, suffix, tokenId)]
    /\ UNCHANGED <<now, paramObjs, escrows, creates, lastRefund, spends, refunds>>
    /\ UNCHANGED <<serviceVars, receiverVars>>

\* Resumes after spendEscrowUTXO: sets the status, and either returns (no
\* action attached) or calls triggerCrossChainAction(action), which runs
\* triggerAction on a new BridgeClient up to executeOnChain's timer, or to the
\* failed result of its catch block.
ReleaseAfterSpend(c, suffix, tokenId) ==
    /\ c \in 1..Len(releases)
    /\ releases[c].pc = "awaitSpend"
    /\ LET r == releases[c]
           e == r.escrow
           action == ParamsOf(e).crossChainAction
           rpc == getRpcUrl(DefaultRelayerConfig, action.chain)
       IN /\ heap' = [heap EXCEPT ![e].status = "released"]
          /\ IF ~action.given
             THEN /\ releases' = [releases EXCEPT ![c].pc = "done",
                                     ![c].ret = ReleaseReturnValue(r, NoCross, FALSE)]
                  /\ UNCHANGED triggers
             ELSE /\ triggers' = [triggers EXCEPT ![e] = @ + 1]
                  /\ releases' = [releases EXCEPT
                        ![c].pc = IF rpc.throws THEN "awaitTrigger" ELSE "awaitChain",
                        ![c].event = EventMessage(action, UnknownEscrowText,
                                                  LiteralProof(""), now),
                        ![c].pendingActions = {ActionId(UnknownEscrowText, now)},
                        ![c].cross = IF rpc.throws THEN FailedResult("Unsupported chain")
                                     ELSE executeOnChain(action, rpc.url, now, suffix, tokenId)]
    /\ UNCHANGED <<now, paramObjs, escrows, creates, lastRefund, spends, refunds>>
    /\ UNCHANGED <<serviceVars, receiverVars>>

\* executeOnChain's timer fires: triggerAction removes the pending action and
\* returns the receipt.
BridgeConfirm(c) ==
    /\ c \in 1..Len(releases)
    /\ releases[c].pc = "awaitChain"
    /\ releases' = [releases EXCEPT ![c].pc = "awaitTrigger",
          ![c].pendingActions = @ \ {ActionId(releases[c].event.escrowId,
                                              releases[c].event.timestamp)}]
    /\ UNCHANGED <<now, paramObjs, heap, escrows, creates, lastRefund,
                   spends, refunds, triggers>>
    /\ UNCHANGED <<serviceVars, receiverVars>>

\* ReleaseReturn with a failed trigger thrown to the caller.
ReleaseReturnThrowing(c) ==
    /\ c \in 1..Len(releases)
    /\ releases[c].pc = "awaitTrigger"
    /\ releases' = IF releases[c].cross.status = "failed"
                   THEN [releases EXCEPT ![c].pc = "done", ![c].error = releases[c].cross.error]
                   ELSE [releases EXCEPT ![c].pc = "done",
                           ![c].ret = ReleaseReturnValue(releases[c], releases[c].cross, TRUE)]
    /\ UNCHANGED <<now, paramObjs, heap, escrows, creates, lastRefund,
                   spends, refunds, triggers>>
    /\ UNCHANGED <<serviceVars, receiverVars>>

\* Resumes after triggerCrossChainAction and returns.
ReleaseReturn(c) ==
    /\ c \in 1..Len(releases)
    /\ releases[c].pc = "awaitTrigger"
    /\ releases' = [releases EXCEPT ![c].pc = "done",
          ![c].ret = ReleaseReturnValue(releases[c], releases[c].cross, TRUE)]
    /\ UNCHANGED <<now, paramObjs, heap, escrows, creates, lastRefund,
                   spends, refunds, triggers>>
    /\ UNCHANGED <<serviceVars, receiverVars>>

\* ------------------------------------------------------------------------
\* EscrowClient.refundEscrow (escrow.ts): no await, one step
\* ------------------------------------------------------------------------
DefaultTimeout == 604800

TimeoutOf(params) ==
    IF params.timeout.given /\ params.timeout.value # 0 THEN params.timeout.value
    ELSE DefaultTimeout

\* RefundError without the status guard.
RefundErrorNoStateGuard(escrowId) ==
    IF ~MapHas(escrows, escrowId) THEN "Escrow not found"
    ELSE IF now - heap[escrows[escrowId]].createdAt < TimeoutOf(ParamsOf(escrows[escrowId]))
    THEN "Escrow timeout has not passed yet"
    ELSE ""

\* RefundError without the timeout check.
RefundErrorNoTimeoutCheck(escrowId) ==
    IF ~MapHas(escrows, escrowId) THEN "Escrow not found"
    ELSE IF heap[escrows[escrowId]].status # "active" THEN "Escrow is not active"
    ELSE ""

RefundError(escrowId) ==
    IF ~MapHas(escrows, escrowId) THEN "Escrow not found"
    ELSE IF heap[escrows[escrowId]].status # "active" THEN "Escrow is not active"
    ELSE IF now - heap[escrows[escrowId]].createdAt < TimeoutOf(ParamsOf(escrows[escrowId]))
    THEN "Escrow timeout has not passed yet"
    ELSE ""

RefundEscrow(escrowId) ==
    LET err == RefundError(escrowId)
    IN /\ Calls < MaxCalls
       /\ lastRefund' = [called |-> lastRefund.called + 1, escrowId |-> escrowId, error |-> err,
                         txId |-> IF err = "" THEN <<"refund", now, "">> ELSE EmptyStr]
       /\ IF err = ""
          THEN /\ heap' = [heap EXCEPT ![escrows[escrowId]].status = "refunded"]
               /\ refunds' = [refunds EXCEPT ![escrows[escrowId]] = @ + 1]
          ELSE UNCHANGED <<heap, refunds>>
       /\ UNCHANGED <<now, paramObjs, escrows, creates, releases, spends, triggers>>
       /\ UNCHANGED <<serviceVars, receiverVars>>

\* EscrowClient.getEscrow: the stored object, 0 for null.
getEscrow(escrowId) == IF MapHas(escrows, escrowId) THEN escrows[escrowId] ELSE 0

\* ------------------------------------------------------------------------
\* The error kinds of the error taxonomy, by the message the code throws
\* ------------------------------------------------------------------------
ErrorKind(message) ==
    CASE message = "Escrow not found" -> "NotFound"
      [] message = "Escrow is not active" -> "InvalidState"
      [] message = "Invalid ZK proof" -> "InvalidProof"
      [] message = "Escrow timeout has not passed yet" -> "TimeoutNotElapsed"
      [] message \in {"Escrow amount must be positive", "Beneficiary address is required",
                      "At least one condition is required"} -> "InvalidEscrowParams"
      [] message = "Unsupported chain" -> "UnsupportedEnvironment"
      [] message \in {"Escrow ID is required", "Condition data is required"} ->
           "InvalidRequest"
      [] message = "" -> "none"
      [] OTHER -> "Error"

\* ------------------------------------------------------------------------
\* Specification
\* ------------------------------------------------------------------------
EscrowIds == DOMAIN escrows \cup {UnknownEscrowId}

Next ==
    \/ Tick
    \/ \E params \in EscrowParamsSet, suffix \in RandomSuffixes : CreateStart(params, suffix)
    \/ \E k \in 1..Len(creates) : CreateHash(k)
    \/ \E k \in 1..Len(creates) : CreateStore(k)
    \/ \E escrowId \in EscrowIds, att \in Attestations : ReleaseStart(escrowId, att)
    \/ \E c \in 1..Len(releases) : ReleaseAfterVerify(c)
    \/ \E c \in 1..Len(releases), suffix \in RandomSuffixes, tokenId \in TokenIds :
          ReleaseAfterSpend(c, suffix, tokenId)
    \/ \E c \in 1..Len(releases) : BridgeConfirm(c)
    \/ \E c \in 1..Len(releases) : ReleaseReturn(c)
    \/ \E escrowId \in EscrowIds : RefundEscrow(escrowId)

Spec == Init /\ [][Next]_vars

\* ------------------------------------------------------------------------
\* The caller keeps the params object it passed to createEscrow, and
\* getEscrow hands out the stored Escrow object itself, whose params member
\* is that same object: the caller can write to it.
\* ------------------------------------------------------------------------
\* The assignments the caller makes: params.timeout = 1,
\* params.crossChainAction = {chain: 'base', ...}, delete
\* params.crossChainAction.
ParamsWrites ==
    { [field |-> "timeout", timeout |-> Timeout(1), crossChainAction |-> NoAction],
      [field |-> "crossChainAction", timeout |-> NoTimeout,
       crossChainAction |-> Action("base", "transfer")],
      [field |-> "crossChainAction", timeout |-> NoTimeout, crossChainAction |-> NoAction] }

WriteTo(params, w) ==
    IF w.field = "timeout" THEN [params EXCEPT !.timeout = w.timeout]
    ELSE [params EXCEPT !.crossChainAction = w.crossChainAction]

\* The caller writes to the params object of its k-th createEscrow call after
\* the call has returned the escrow.
MutateParams(k, w) ==
    /\ k \in 1..Len(creates)
    /\ creates[k].pc = "done" /\ creates[k].escrow # 0
    /\ WriteTo(paramObjs[k], w) # paramObjs[k]
    /\ paramObjs' = [paramObjs EXCEPT ![k] = WriteTo(@, w)]
    /\ UNCHANGED <<now, heap, escrows, creates, releases, lastRefund,
                   spends, refunds, triggers>>
    /\ UNCHANGED <<serviceVars, receiverVars>>

\* The caller writes to the params member of the record getEscrow(escrowId)
\* returned.
MutateRecord(escrowId, w) ==
    /\ getEscrow(escrowId) # 0
    /\ WriteTo(ParamsOf(getEscrow(escrowId)), w) # ParamsOf(getEscrow(escrowId))
    /\ paramObjs' = [paramObjs EXCEPT ![heap[getEscrow(escrowId)].params] = WriteTo(@, w)]
    /\ UNCHANGED <<now, heap, escrows, creates, releases, lastRefund,
                   spends, refunds, triggers>>
    /\ UNCHANGED <<serviceVars, receiverVars>>

\* The createEscrow, executeRelease and refundEscrow calls made next to the
\* caller's writes.
MaxCallerCalls == 2

Within(A) == A /\ Calls' <= MaxCallerCalls

CallerNext ==
    \/ Tick
    \/ \E params \in EscrowParamsSet, suffix \in RandomSuffixes :
          Within(CreateStart(params, suffix))
    \/ \E k \in 1..Len(creates) : CreateHash(k)
    \/ \E k \in 1..Len(creates) : CreateStore(k)
    \/ \E escrowId \in EscrowIds, att \in Attestations : Within(ReleaseStart(escrowId, att))
    \/ \E c \in 1..Len(releases) : ReleaseAfterVerify(c)
    \/ \E c \in 1..Len(releases), suffix \in RandomSuffixes, tokenId \in TokenIds :
          ReleaseAfterSpend(c, suffix, tokenId)
    \/ \E c \in 1..Len(releases) : BridgeConfirm(c)
    \/ \E c \in 1..Len(releases) : ReleaseReturn(c)
    \/ \E escrowId \in EscrowIds : Within(RefundEscrow(escrowId))
    \/ \E k \in 1..Len(creates), w \in ParamsWrites : MutateParams(k, w)
    \/ \E escrowId \in DOMAIN escrows, w \in ParamsWrites : MutateRecord(escrowId, w)

CallerSpec == Init /\ [][CallerNext]_vars

\* Every await of createEscrow and executeRelease is on a promise the client
\* itself resolves (the simulated ledger and verifier) or on the one-second
\* timer of executeOnChain, so every continuation that is waiting is
\* eventually run.
Fairness ==
    /\ \A k \in 1..MaxCalls : WF_vars(CreateHash(k)) /\ WF_vars(CreateStore(k))
    /\ \A c \in 1..MaxCalls :
          /\ WF_vars(ReleaseAfterVerify(c))
          /\ WF_vars(\E suffix \in RandomSuffixes, tokenId \in TokenIds :
                        ReleaseAfterSpend(c, suffix, tokenId))
          /\ WF_vars(BridgeConfirm(c))
          /\ WF_vars(ReleaseReturn(c))

LiveSpec == Spec /\ Fairness

\* ------------------------------------------------------------------------
\* The stateless services: ProofGenerator (proof.ts) and checkCondition
\* (conditions.ts), called with inputs drawn from the sets below
\* ------------------------------------------------------------------------
MaxServiceCalls == 2
MaxBatch == 2

ServiceEscrowId == <<"escrow", 1, "a1b2c3d4">>

\* conditionData: empty; a private field only; private and public fields, in
\* two versions that differ in the private field; public fields with the
\* values 0; the four public fields.
ConditionDataSet ==
    { <<>>,
      << <<"oracleValue", Num(1)>> >>,
      << <<"oracleValue", Num(1)>>, <<"escrowId", StrV(ServiceEscrowId)>>,
         <<"beneficiary", StrV(Lit("addr1"))>>, <<"amount", Num(5)>> >>,
      << <<"oracleValue", Num(2)>>, <<"escrowId", StrV(ServiceEscrowId)>>,
         <<"beneficiary", StrV(Lit("addr1"))>>, <<"amount", Num(5)>> >>,
      << <<"timestamp", Num(0)>>, <<"escrowId", StrV(ServiceEscrowId)>>,
         <<"amount", Num(0)>> >>,
      << <<"timestamp", Num(7)>>, <<"escrowId", StrV(ServiceEscrowId)>>,
         <<"beneficiary", StrV(Lit("addr1"))>>, <<"amount", Num(5)>> >> }

ConditionLists ==
    { <<>>, <<Cond("TIME_LOCK")>>, <<Cond("ORACLE"), Cond("HASH_LOCK")>>,
      <<Cond("HASH_LOCK"), Cond("ORACLE")>> }

ProofRequests ==
    {[escrowId |-> ServiceEscrowId, conditionData |-> d, conditions |-> cs] :
        d \in ConditionDataSet, cs \in ConditionLists}
    \cup {[escrowId |-> EmptyStr, conditionData |-> << <<"oracleValue", Num(1)>> >>,
           conditions |-> <<>>]}

\* Math.random().toString(16).slice(2): the nonce of the witness.
Nonces == {"9f3c"}

\* The requests batches are made of: two that generateProof accepts, one it
\* rejects for its empty escrowId and one it rejects for its empty
\* conditionData.
BatchRequests ==
    { [escrowId |-> ServiceEscrowId, conditionData |-> << <<"oracleValue", Num(1)>> >>,
       conditions |-> <<Cond("TIME_LOCK")>>],
      [escrowId |-> ServiceEscrowId,
       conditionData |-> << <<"escrowId", StrV(ServiceEscrowId)>>, <<"amount", Num(5)>> >>,
       conditions |-> <<Cond("ORACLE"), Cond("HASH_LOCK")>>],
      [escrowId |-> EmptyStr, conditionData |-> << <<"oracleValue", Num(1)>> >>,
       conditions |-> <<>>],
      [escrowId |-> ServiceEscrowId, conditionData |-> <<>>, conditions |-> <<>>] }
Batches == UNION {[1..n -> BatchRequests] : n \in 0..MaxBatch}

\* The Proof objects passed to verifyProof: those generateProof returned,
\* copies of them with the declared or the embedded circuit identifier or the
\* verified flag changed, and ones whose proof string does not decode to an
\* object.
OtherCircuitId == <<"circuit", "custom">>
Tampered(proof) ==
    { [proof EXCEPT !.circuitId = OtherCircuitId],
      [proof EXCEPT !.proof = ToBase64Json([proof.proof.payload EXCEPT
                                              !.circuitId = OtherCircuitId])],
      [proof EXCEPT !.verified = FALSE] }
Malformed ==
    {[NoProof EXCEPT !.proof = p, !.publicInputs = <<Lit("x")>>, !.verified = TRUE,
                     !.circuitId = <<"generic_escrow_v1">>] :
        p \in {LiteralProof("not base64 json"), LiteralProof(""), Base64JsonText("null"),
                Base64JsonText("5"), ToBase64Json(NoPayload)}}
ReturnedProofs == {proofCalls[i].proof : i \in {j \in 1..Len(proofCalls) : proofCalls[j].ok}}
VerifyInputs == ReturnedProofs \cup UNION {Tampered(p) : p \in ReturnedProofs} \cup Malformed

\* The conditions and witness data checkCondition is called with.
CheckConditions ==
    { [Cond("TIME_LOCK") EXCEPT !.unlockAfter = "1970-01-01T00:00:02Z"],
      [Cond("TIME_LOCK") EXCEPT !.unlockAfter = "not a date"],
      Cond("ORACLE"),
      Cond("MULTI_SIG"),
      [Cond("MULTI_SIG") EXCEPT !.currentSignatures = <<"sig1", "sig2">>],
      Cond("HASH_LOCK"),
      [Cond("HASH_LOCK") EXCEPT !.preimage = "secret"],
      Cond("GOVERNANCE_VOTE"),
      Cond("CUSTOM") }
WitnessDataSet ==
    { <<>>,
      << <<"oracleValue", Num(1)>> >>,
      << <<"preimage", StrV(Lit("secret"))>> >>,
      << <<"voteApproved", Bool(TRUE)>> >>,
      << <<"voteApproved", Bool(FALSE)>> >>,
      << <<"proofVerified", Bool(TRUE)>> >>,
      << <<"currentTime", Num(1)>> >>,
      << <<"currentTime", Num(2)>> >> }

ServiceCalls == Len(proofCalls) + Len(verifyCalls) + Len(batchCalls) + Len(checkCalls)
                + Len(validateCalls) + Len(multiSigCalls)
escrowVars == <<paramObjs, heap, escrows, creates, releases, lastRefund,
                spends, refunds, triggers>>

\* A generateProof call.
GenerateProofCall(request, nonce) ==
    /\ ServiceCalls < MaxServiceCalls
    /\ LET generated == generateProof(request, now, nonce)
       IN proofCalls' = Append(proofCalls,
            [request |-> request, t |-> now, ok |-> generated.ok,
             error |-> IF generated.ok THEN "" ELSE generated.error,
             proof |-> ProofOf(generated)])
    /\ UNCHANGED <<now, verifyCalls, batchCalls, checkCalls, validateCalls, multiSigCalls,
                   facadeCalls>>
    /\ UNCHANGED <<escrowVars, receiverVars>>

\* A verifyProof call.
VerifyProofCall(proof) ==
    /\ ServiceCalls < MaxServiceCalls
    /\ verifyCalls' = Append(verifyCalls,
          [proof |-> proof, result |-> ProofGeneratorVerifyProof(proof)])
    /\ UNCHANGED <<now, proofCalls, batchCalls, checkCalls, validateCalls, multiSigCalls,
                   facadeCalls>>
    /\ UNCHANGED <<escrowVars, receiverVars>>

\* A batchGenerateProofs call.
BatchGenerateProofsCall(requests, nonce) ==
    /\ ServiceCalls < MaxServiceCalls
    /\ batchCalls' = Append(batchCalls,
          [requests |-> requests, t |-> now,
           result |-> batchGenerateProofs(requests, now, nonce)])
    /\ UNCHANGED <<now, proofCalls, verifyCalls, checkCalls, validateCalls, multiSigCalls,
                   facadeCalls>>
    /\ UNCHANGED <<escrowVars, receiverVars>>

\* A checkCondition call.
CheckConditionCall(condition, data) ==
    /\ ServiceCalls < MaxServiceCalls
    /\ checkCalls' = Append(checkCalls,
          [condition |-> condition, data |-> data, t |-> now,
           result |-> checkCondition(condition, data, now)])
    /\ UNCHANGED <<now, proofCalls, verifyCalls, batchCalls, validateCalls, multiSigCalls,
                   facadeCalls>>
    /\ UNCHANGED <<escrowVars, receiverVars>>

\* The conditions validateCondition is called with: for each variant one the
\* builders make and ones with a mandatory member missing or ill-formed,
\* and one with a type tag outside ConditionType.
ValidateConditions ==
    { Cond("TIME_LOCK"), BaseCondition("TIME_LOCK"),
      Cond("ORACLE"), [Cond("ORACLE") EXCEPT !.condition = ""],
      [Cond("ORACLE") EXCEPT !.source = ""],
      Cond("MULTI_SIG"), MultiSig(0, <<"pk1", "pk2">>), MultiSig(3, <<"pk1", "pk2">>),
      MultiSig(2, <<"pk1", "pk2">>),
      Cond("HASH_LOCK"), [Cond("HASH_LOCK") EXCEPT !.hash = ""],
      [Cond("HASH_LOCK") EXCEPT !.hashAlgorithm = ""],
      Cond("GOVERNANCE_VOTE"), [Cond("GOVERNANCE_VOTE") EXCEPT !.threshold = ""],
      [Cond("GOVERNANCE_VOTE") EXCEPT !.proposalId = ""],
      Cond("CUSTOM"), [Cond("CUSTOM") EXCEPT !.inputs = NoInputs],
      [Cond("CUSTOM") EXCEPT !.circuitId = ""],
      BaseCondition("ESCROW_LOCK") }

\* The arguments Conditions.multiSig is called with.
RequiredCounts == -1..3
SignerLists == {<<>>, <<"pk1">>, <<"pk1", "pk2">>}

\* A validateCondition call.
ValidateConditionCall(condition) ==
    /\ ServiceCalls < MaxServiceCalls
    /\ validateCalls' = Append(validateCalls,
          [condition |-> condition, result |-> validateCondition(condition)])
    /\ UNCHANGED <<now, proofCalls, verifyCalls, batchCalls, checkCalls, multiSigCalls,
                   facadeCalls>>
    /\ UNCHANGED <<escrowVars, receiverVars>>

\* A Conditions.multiSig call.
MultiSigCall(required, signers) ==
    /\ ServiceCalls < MaxServiceCalls
    /\ multiSigCalls' = Append(multiSigCalls,
          [required |-> required, signers |-> signers,
           result |-> ConditionsMultiSig(required, signers)])
    /\ UNCHANGED <<now, proofCalls, verifyCalls, batchCalls, checkCalls, validateCalls,
                   facadeCalls>>
    /\ UNCHANGED <<escrowVars, receiverVars>>

ServiceNext ==
    \/ Tick
    \/ \E request \in ProofRequests, nonce \in Nonces : GenerateProofCall(request, nonce)
    \/ \E proof \in VerifyInputs : VerifyProofCall(proof)
    \/ \E requests \in Batches, nonce \in Nonces : BatchGenerateProofsCall(requests, nonce)
    \/ \E condition \in CheckConditions, data \in WitnessDataSet :
          CheckConditionCall(condition, data)
    \/ \E condition \in ValidateConditions : ValidateConditionCall(condition)
    \/ \E required \in RequiredCounts, signers \in SignerLists :
          MultiSigCall(required, signers)

ServiceSpec == Init /\ [][ServiceNext]_vars

\* ------------------------------------------------------------------------
\* The facade BitLogic (index.ts): generateProof and verifyProof delegate to
\* the ProofGenerator, executeRelease to the EscrowClient
\* ------------------------------------------------------------------------
MaxFacadeCalls == 2
MaxFacadeProofs == 1
MaxExecuteWithProof == 1

\* The requests the facade's generateProof is called with for a stored
\* escrow: conditionData with the four public fields, without a timestamp,
\* and with the escrowId as its only public field.
FacadeConditionData(e) ==
    { PublicConditionData(e, 7),
      << <<"escrowId", StrV(heap[e].id)>>, <<"beneficiary", StrV(ParamsOf(e).beneficiary)>>,
         <<"amount", Num(ParamsOf(e).amount)>> >>,
      << <<"oracleValue", Num(1)>>, <<"escrowId", StrV(heap[e].id)>> >> }
FacadeRequests ==
    UNION {{[escrowId |-> heap[e].id, conditionData |-> d,
             conditions |-> ParamsOf(e).conditions] : d \in FacadeConditionData(e)} :
           e \in 1..Len(heap)}

\* BitLogic.generateProof
FacadeGenerateProof(request, nonce) ==
    /\ Len(proofCalls) < MaxFacadeProofs
    /\ GenerateProofCall(request, nonce)

\* proof.publicInputs[1] || '': the second public input, the empty string
\* when there is none or it is empty.
SecondPublicInput(publicInputs) ==
    IF Len(publicInputs) >= 2 THEN publicInputs[2] ELSE EmptyStr

NoFacadeCall == [proof |-> NoProof, valid |-> FALSE, error |-> "", release |-> 0]

\* BitLogic.executeWithProof(proof), called without an escrow id: verifyProof,
\* which reads no state, then executeRelease up to its first await.
executeWithProof(proof) ==
    /\ Calls < MaxCalls
    /\ Len(facadeCalls) < MaxExecuteWithProof
    /\ LET verification == ProofGeneratorVerifyProof(proof)
           call == [NoFacadeCall EXCEPT !.proof = proof, !.valid = verification.valid]
       IN IF ~verification.valid
          THEN /\ facadeCalls' = Append(facadeCalls,
                     [call EXCEPT !.error = "Proof verification failed"])
               /\ UNCHANGED releases
          ELSE /\ facadeCalls' = Append(facadeCalls, [call EXCEPT !.release = Len(releases) + 1])
               /\ releases' = Append(releases,
                     executeReleaseStart(
                         SecondPublicInput(proof.publicInputs),
                         [proof |-> proof.proof, publicInputs |-> proof.publicInputs,
                          circuitId |-> proof.circuitId]))
    /\ UNCHANGED <<now, paramObjs, heap, escrows, creates, lastRefund,
                   spends, refunds, triggers>>
    /\ UNCHANGED <<proofCalls, verifyCalls, batchCalls, checkCalls, validateCalls,
                   multiSigCalls, receiverVars>>

\* The createEscrow and executeRelease calls made through the facade.
ViaFacade(A) == A /\ Calls' <= MaxFacadeCalls

FacadeNext ==
    \/ Tick
    \/ \E params \in EscrowParamsSet, suffix \in RandomSuffixes :
          ViaFacade(CreateStart(params, suffix))
    \/ \E k \in 1..Len(creates) : CreateHash(k)
    \/ \E k \in 1..Len(creates) : CreateStore(k)
    \/ \E request \in FacadeRequests, nonce \in Nonces : FacadeGenerateProof(request, nonce)
    \/ \E proof \in VerifyInputs : ViaFacade(executeWithProof(proof))
    \/ \E c \in 1..Len(releases) : ReleaseAfterVerify(c)
    \/ \E c \in 1..Len(releases), suffix \in RandomSuffixes, tokenId \in TokenIds :
          ReleaseAfterSpend(c, suffix, tokenId)
    \/ \E c \in 1..Len(releases) : BridgeConfirm(c)
    \/ \E c \in 1..Len(releases) : ReleaseReturn(c)

FacadeSpec == Init /\ [][FacadeNext]_vars

\* ------------------------------------------------------------------------
\* The transactions sent to BitLogicTrigger
\* ------------------------------------------------------------------------
Occurrences(seq, x) == Cardinality({i \in 1..Len(seq) : seq[i] = x})
MintedFor(seq, escrowId) == Cardinality({i \in 1..Len(seq) : seq[i][1] = escrowId})

\* A transaction with outcome r is mined.
Mined(r, tx) ==
    /\ receiver.txs < MaxReceiverTxs
    /\ trigger' = r.st
    /\ receiver' =
         [txs |-> receiver.txs + 1,
          returned |-> [escrowId \in ReceiverEscrowIds |->
                          receiver.returned[escrowId]
                          + Occurrences(r.done, <<"onEscrowReleased", escrowId>>)
                          + Occurrences(r.done, <<"executeAction", escrowId>>)],
          minted |-> [escrowId \in ReceiverEscrowIds |->
                        receiver.minted[escrowId] + MintedFor(r.minted, escrowId)],
          reentries |-> receiver.reentries
                        + (IF r.ok /\ tx.reaction.kind \notin {"accept", "refuse"} THEN 1 ELSE 0),
          last |-> [tx EXCEPT !.ok = r.ok,
                              !.authorized = IsAuthorizedRelayer(trigger, tx.sender),
                              !.processed = IF tx.escrowId \in ReceiverEscrowIds
                                            THEN isEscrowProcessed(trigger, tx.escrowId)
                                            ELSE FALSE]]
    /\ UNCHANGED <<now, escrowVars, serviceVars>>

Tx(fn, sender, escrowId, beneficiary, reaction) ==
    [NoTransaction EXCEPT !.fn = fn, !.sender = sender, !.escrowId = escrowId,
                          !.beneficiary = beneficiary, !.reaction = reaction]

OnEscrowReleasedTx(sender, escrowId, beneficiary, reaction) ==
    Mined(onEscrowReleased(trigger, sender, escrowId, beneficiary, 5, now, reaction),
          Tx("onEscrowReleased", sender, escrowId, beneficiary, reaction))

MintNFTTx(sender, recipient, tokenId, reaction) ==
    Mined(mintNFT(trigger, sender, recipient, tokenId, reaction, now),
          Tx("mintNFT", sender, "", recipient, reaction))

ExecuteActionTx(sender, escrowId) ==
    Mined(executeAction(trigger, sender, escrowId),
          Tx("executeAction", sender, escrowId, ZeroAddress, Accept))

AddRelayerTx(sender, relayer) ==
    Mined(addRelayer(trigger, sender, relayer), Tx("addRelayer", sender, "", relayer, Accept))

RemoveRelayerTx(sender, relayer) ==
    Mined(removeRelayer(trigger, sender, relayer),
          Tx("removeRelayer", sender, "", relayer, Accept))

Senders == {Owner, "user", "relayerContract"}
Beneficiaries == {ZeroAddress, "user", "relayerContract", "plainContract"}
MintTokenIds == {0, 1}

ReceiverNext ==
    \/ \E sender \in Senders, escrowId \in ReceiverEscrowIds, beneficiary \in Beneficiaries :
          \E reaction \in Reactions(beneficiary) :
             OnEscrowReleasedTx(sender, escrowId, beneficiary, reaction)
    \/ \E sender \in Senders, recipient \in Beneficiaries, tokenId \in MintTokenIds :
          \E reaction \in Reactions(recipient) : MintNFTTx(sender, recipient, tokenId, reaction)
    \/ \E sender \in Senders, escrowId \in ReceiverEscrowIds : ExecuteActionTx(sender, escrowId)
    \/ \E sender \in {Owner, "user"} : AddRelayerTx(sender, "relayerContract")
    \/ \E sender \in {Owner, "user"} : RemoveRelayerTx(sender, "relayerContract")

ReceiverSpec == Init /\ [][ReceiverNext]_vars

\* ------------------------------------------------------------------------
\* Vocabulary of the properties
\* ------------------------------------------------------------------------
Objects == 1..Len(heap)
ReleaseCalls == 1..Len(releases)
Terminal == {"released", "refunded"}

\* The call returned {btcTxId, ..., status: 'success'}.
Succeeded(c) == releases[c].pc = "done" /\ releases[c].error = ""
\* The call threw an error of this kind.
FailedWith(c, kind) ==
    releases[c].pc = "done" /\ releases[c].error # "" /\ ErrorKind(releases[c].error) = kind
\* The call passed the lookup and the status guard.
PassedGuard(c) == ErrorKind(releases[c].error) \notin {"NotFound", "InvalidState"}
\* The call has resumed after spendEscrowUTXO.
SpendConfirmed(c) ==
    releases[c].pc \in {"awaitChain", "awaitTrigger"} \/ Succeeded(c)

\* ------------------------------------------------------------------------
\* C1: of the executeRelease calls with a valid proof that are in flight
\* together against one active escrow, exactly one returns success and the
\* others fail with InvalidState; stated here as its consequence that no two
\* calls on the same escrow both return success.
\* ------------------------------------------------------------------------
C1_ExactlyOneWinner ==
    \A c1, c2 \in ReleaseCalls :
        (c1 # c2 /\ releases[c1].escrow = releases[c2].escrow
           /\ releases[c1].escrow # 0 /\ Succeeded(c1))
        => ~Succeeded(c2)

\* ------------------------------------------------------------------------
\* C2: terminal states are final: once an escrow's status is released or
\* refunded, no step changes it.
\* ------------------------------------------------------------------------
C2_TerminalFinal ==
    [][\A e \in Objects : heap[e].status \in Terminal => heap'[e].status = heap[e].status]_vars

\* ------------------------------------------------------------------------
\* C3: per escrow the ledger's fund-moving calls are made at most once in
\* total: at most one spend, at most one refund, never both.
\* ------------------------------------------------------------------------
C3_FundsMovedAtMostOnce == \A e \in Objects : spends[e] + refunds[e] <= 1

\* ------------------------------------------------------------------------
\* C4: per escrow the cross-environment action trigger is invoked at most
\* once.
\* ------------------------------------------------------------------------
C4_TriggerAtMostOnce == \A e \in Objects : triggers[e] <= 1

\* ------------------------------------------------------------------------
\* C5: the state guard: executeRelease and refundEscrow fail with NotFound
\* for an unknown id and with InvalidState for a released or refunded escrow,
\* and that step changes neither the store nor any escrow, and makes no
\* ledger call and no trigger.
\* ------------------------------------------------------------------------
GuardKind(escrowId) ==
    IF ~MapHas(escrows, escrowId) THEN "NotFound"
    ELSE IF heap[escrows[escrowId]].status \in Terminal THEN "InvalidState"
    ELSE "passes"

NothingMoved == UNCHANGED <<heap, escrows, spends, refunds, triggers>>

C5_StateGuard ==
    [][/\ Len(releases') = Len(releases) + 1 =>
            LET r == releases'[Len(releases')]
            IN GuardKind(r.escrowId) # "passes" =>
                 /\ r.pc = "done"
                 /\ ErrorKind(r.error) = GuardKind(r.escrowId)
                 /\ NothingMoved
       /\ lastRefund'.called = lastRefund.called + 1 =>
            (GuardKind(lastRefund'.escrowId) # "passes" =>
                 /\ ErrorKind(lastRefund'.error) = GuardKind(lastRefund'.escrowId)
                 /\ NothingMoved)]_vars

\* executeRelease has failed with InvalidState on an escrow that refundEscrow
\* had refunded.
C5_Witness ==
    \E c \in ReleaseCalls :
        /\ FailedWith(c, "InvalidState")
        /\ heap[releases[c].escrow].status = "refunded"
        /\ lastRefund.called > 0 /\ lastRefund.error = ""

\* ------------------------------------------------------------------------
\* C6: executeRelease on an active escrow with a proof that fails
\* verification fails with InvalidProof; that call spends nothing, triggers
\* nothing and leaves every status as it was; a call on an active escrow whose
\* proof passes verification returns success, also after failed attempts.
\* ------------------------------------------------------------------------
C6_InvalidProofKeepsActive ==
    /\ [](\A c \in ReleaseCalls :
            (releases[c].pc = "done" /\ PassedGuard(c)) =>
               IF verifyProof(releases[c].proof, releases[c].publicInputs)
               THEN Succeeded(c) /\ releases[c].ret.status = "success"
               ELSE /\ FailedWith(c, "InvalidProof")
                    /\ releases[c].btcTxId = EmptyStr
                    /\ releases[c].cross = NoCross)
    /\ [][\A c \in ReleaseCalls :
            (releases[c].pc # "done" /\ releases'[c].pc = "done"
               /\ ErrorKind(releases'[c].error) = "InvalidProof")
            => UNCHANGED <<heap, escrows, spends, refunds, triggers>>]_vars

\* A failed attempt, then a successful release of the same escrow.
C6_Witness ==
    \E c1, c2 \in ReleaseCalls :
        /\ c1 < c2
        /\ releases[c1].escrow = releases[c2].escrow
        /\ FailedWith(c1, "InvalidProof")
        /\ Succeeded(c2)
        /\ heap[releases[c2].escrow].status = "released"

\* ------------------------------------------------------------------------
\* C7: no escrow is released through a call whose attestation the Proof
\* Service's verification reports as not valid.
\* ------------------------------------------------------------------------
ProofServiceValid(r) == performVerification([proof |-> r.proof, circuitId |-> r.circuitId])

C7_ReleasedOnlyIfProofServiceValid ==
    \A c \in ReleaseCalls : SpendConfirmed(c) => ProofServiceValid(releases[c])

\* ------------------------------------------------------------------------
\* C8: executeRelease on escrow E succeeds only with a proof and public
\* inputs generated for E: the public inputs name E's identifier, beneficiary
\* and amount, and the proof's circuit identifier is the one derived from E's
\* conditions.
\* ------------------------------------------------------------------------
InputsOf(r) == {r.publicInputs[i] : i \in 1..Len(r.publicInputs)}

GeneratedFor(r, e) ==
    /\ {heap[e].id, ParamsOf(e).beneficiary, NumStr(ParamsOf(e).amount)} \subseteq InputsOf(r)
    /\ ParseBase64Json(r.proof).ok
    /\ ParseBase64Json(r.proof).value.circuitId = determineCircuitId(ParamsOf(e).conditions)

C8_ProofBoundToEscrow ==
    \A c \in ReleaseCalls : Succeeded(c) => GeneratedFor(releases[c], releases[c].escrow)

\* ------------------------------------------------------------------------
\* C9: executeRelease on an active escrow with the proof and public inputs
\* of an attestation that generateProof returned succeeds, and the escrow is
\* released.
\* ------------------------------------------------------------------------
IsGenerated(r) ==
    /\ r.proof.b64json
    /\ [proof |-> r.proof, publicInputs |-> r.publicInputs, circuitId |-> r.circuitId]
          \in GeneratedAttestations(r.proof.payload.timestamp)

C9_GeneratedProofReleases ==
    \A c \in ReleaseCalls :
        (releases[c].pc = "done" /\ PassedGuard(c) /\ IsGenerated(releases[c]))
        => Succeeded(c) /\ heap[releases[c].escrow].status = "released"

\* ------------------------------------------------------------------------
\* C10: a failure of the action trigger never rolls back the release: once
\* a call has resumed after the ledger spend the escrow is released and stays
\* released, and the call returns the release reference with status success
\* whatever the trigger returned.
\* ------------------------------------------------------------------------
C10_TriggerFailureKeepsRelease ==
    /\ [](\A c \in ReleaseCalls :
            /\ SpendConfirmed(c) => heap[releases[c].escrow].status = "released"
            /\ (releases[c].pc = "done" /\ releases[c].btcTxId # EmptyStr) =>
                  /\ Succeeded(c)
                  /\ releases[c].ret.status = "success"
                  /\ releases[c].ret.btcTxId = releases[c].btcTxId)
    /\ [][\A e \in Objects : heap[e].status = "released" => heap'[e].status = "released"]_vars

C10_Witness ==
    \E c \in ReleaseCalls :
        /\ Succeeded(c)
        /\ releases[c].cross.status = "failed"
        /\ releases[c].ret.btcTxId # EmptyStr
        /\ heap[releases[c].escrow].status = "released"

\* ------------------------------------------------------------------------
\* C11: when the action trigger attempted by executeRelease failed, the
\* value executeRelease returns carries the failure: one of the strings the
\* caller reads from it tells the kind of the trigger's error.
\* ------------------------------------------------------------------------
ReturnedStrings(ret) ==
    {ret.btcTxId, Lit(ret.status)} \cup (IF ret.hasEthTxId THEN {ret.ethTxId} ELSE {})

C11_ReturnReportsActionFailure ==
    \A c \in ReleaseCalls :
        (Succeeded(c) /\ releases[c].cross.status = "failed")
        => \E s \in ReturnedStrings(releases[c].ret) :
              ErrorKind(s[3]) = ErrorKind(releases[c].cross.error)

\* ------------------------------------------------------------------------
\* C12: triggerAction for an action whose target chain has no configured
\* endpoint dispatches nothing and returns status failed with an
\* UnsupportedEnvironment error.
\* ------------------------------------------------------------------------
HasEndpoint(config, chain) ==
    ~getRpcUrl(config, chain).throws /\ getRpcUrl(config, chain).url # ""

C12_NoEndpointFailsUndispatched ==
    \A c \in ReleaseCalls :
        (releases[c].event # NoEvent
           /\ ~HasEndpoint(DefaultRelayerConfig, releases[c].event.targetChain))
        => /\ releases[c].pc # "awaitChain"
           /\ releases[c].cross.status = "failed"
           /\ releases[c].cross.txHash = EmptyStr
           /\ ErrorKind(releases[c].cross.error) = "UnsupportedEnvironment"

\* ------------------------------------------------------------------------
\* C13: the trigger started by executeRelease is given the released
\* escrow's identifier and the proof supplied to executeRelease: the event
\* message it builds carries both.
\* ------------------------------------------------------------------------
C13_TriggerGetsEscrowAndProof ==
    \A c \in ReleaseCalls :
        releases[c].event # NoEvent
        => /\ releases[c].event.escrowId = heap[releases[c].escrow].id
           /\ releases[c].event.proof = releases[c].proof

\* ------------------------------------------------------------------------
\* C14: refundEscrow on an active escrow while the seconds elapsed since
\* its creation are fewer than its configured timeout (the default when none
\* was given) fails with TimeoutNotElapsed and changes no status and issues no
\* refund, whatever executeRelease calls have been made for the escrow.
\* ------------------------------------------------------------------------
ConfiguredTimeout(params) ==
    IF params.timeout.given THEN params.timeout.value ELSE DefaultTimeout
Elapsed(e) == now - heap[e].createdAt

C14_RefundBeforeTimeoutFails ==
    [][lastRefund'.called = lastRefund.called + 1 =>
         LET id == lastRefund'.escrowId
         IN (/\ MapHas(escrows, id)
             /\ heap[escrows[id]].status = "active"
             /\ Elapsed(escrows[id]) < ConfiguredTimeout(ParamsOf(escrows[id])))
            => /\ ErrorKind(lastRefund'.error) = "TimeoutNotElapsed"
               /\ lastRefund'.txId = EmptyStr
               /\ UNCHANGED <<heap, escrows, refunds>>]_vars

\* refundEscrow has failed before the timeout while an executeRelease call
\* with an accepted proof is in flight for the same, still active escrow.
C14_Witness ==
    \E c \in ReleaseCalls :
        /\ releases[c].pc = "awaitVerify" /\ releases[c].isValid
        /\ lastRefund.called > 0
        /\ lastRefund.escrowId = releases[c].escrowId
        /\ ErrorKind(lastRefund.error) = "TimeoutNotElapsed"
        /\ heap[releases[c].escrow].status = "active"

\* ------------------------------------------------------------------------
\* C15: refundEscrow on an active escrow succeeds and sets the status to
\* refunded if and only if the seconds elapsed since creation are at least the
\* timeout configured at creation, for every configured value (0 included);
\* the timeout is 604800 seconds only when none was given.
\* ------------------------------------------------------------------------
C15_RefundIffTimeoutElapsed ==
    [][lastRefund'.called = lastRefund.called + 1 =>
         LET id == lastRefund'.escrowId
         IN (MapHas(escrows, id) /\ heap[escrows[id]].status = "active")
            => ((lastRefund'.error = "" /\ heap'[escrows[id]].status = "refunded")
                <=> Elapsed(escrows[id]) >= ConfiguredTimeout(ParamsOf(escrows[id])))]_vars

\* ------------------------------------------------------------------------
\* C16: createEscrow with amount <= 0, an empty beneficiary or an empty
\* condition list fails with InvalidEscrowParams and leaves the escrow store
\* as it was: no record of that call is ever held, and the ids getEscrow
\* answers for are the same before and after.
\* ------------------------------------------------------------------------
InvalidParams(params) ==
    params.amount <= 0 \/ params.beneficiary = EmptyStr \/ Len(params.conditions) = 0

C16_InvalidParamsStoreNothing ==
    /\ [][Len(creates') = Len(creates) + 1 =>
            (InvalidParams(paramObjs'[Len(creates')])
             => /\ creates'[Len(creates')].pc = "done"
                /\ ErrorKind(creates'[Len(creates')].error) = "InvalidEscrowParams"
                /\ UNCHANGED <<heap, escrows>>)]_vars
    /\ [](\A k \in 1..Len(creates) :
            InvalidParams(paramObjs[k])
            => /\ creates[k].pc = "done" /\ creates[k].escrow = 0
               /\ \A e \in Objects : heap[e].params # k)

\* createEscrow with an empty condition list and with an empty beneficiary
\* have failed while the store holds the one escrow created before.
C16_Witness ==
    /\ \E k \in 1..Len(creates) :
          creates[k].error = "At least one condition is required"
    /\ \E k \in 1..Len(creates) :
          creates[k].error = "Beneficiary address is required"
    /\ Len(heap) = 1
    /\ DOMAIN escrows = {heap[1].id}
    /\ getEscrow(UnknownEscrowId) = 0

\* ------------------------------------------------------------------------
\* C17: createEscrow rejects malformed conditions, so every stored escrow
\* has only conditions that pass validateCondition.
\* ------------------------------------------------------------------------
C17_StoredConditionsValid ==
    \A e \in Objects :
        \A i \in 1..Len(ParamsOf(e).conditions) : validateCondition(ParamsOf(e).conditions[i])

\* ------------------------------------------------------------------------
\* C18: every escrow createEscrow returns is stored with status active
\* (no record is ever pending) and getEscrow returns it under its id; a status
\* that has left active never becomes active again.
\* ------------------------------------------------------------------------
C18_StartsActiveNeverAgain ==
    /\ [](\A e \in Objects : heap[e].status \in {"active", "released", "refunded"})
    /\ [][\A k \in 1..Len(creates) :
            (creates[k].pc # "done" /\ creates'[k].pc = "done" /\ creates'[k].error = "")
            => LET e == creates'[k].escrow
               IN /\ e \in 1..Len(heap')
                  /\ heap'[e].status = "active"
                  /\ heap'[e].id = creates'[k].escrowId
                  /\ MapHas(escrows', heap'[e].id)
                  /\ escrows'[heap'[e].id] = e]_vars
    /\ [][\A e \in Objects : heap[e].status # "active" => heap'[e].status # "active"]_vars

\* createEscrow has returned two escrows; one has been released since, the
\* other is still active, and getEscrow returns each under its id.
C18_Witness ==
    \E k1, k2 \in 1..Len(creates) :
        /\ creates[k1].pc = "done" /\ creates[k1].escrow # 0
        /\ heap[creates[k1].escrow].status = "released"
        /\ getEscrow(creates[k1].escrowId) = creates[k1].escrow
        /\ creates[k2].pc = "done" /\ creates[k2].escrow # 0
        /\ heap[creates[k2].escrow].status = "active"
        /\ getEscrow(creates[k2].escrowId) = creates[k2].escrow

\* ------------------------------------------------------------------------
\* C19: escrow identifiers are unique for the life of the process: no
\* createEscrow stores its record under an id already in the store, so no
\* stored record is replaced by a later creation.
\* ------------------------------------------------------------------------
C19_IdsNeverReused ==
    [][\A id \in DOMAIN escrows : escrows'[id] = escrows[id]]_vars

\* ------------------------------------------------------------------------
\* C20: the pending-action registry holds only in-flight actions: once
\* triggerAction has returned, with status confirmed or failed, the registry
\* has no record for that call and getActionStatus for its key returns none.
\* ------------------------------------------------------------------------
C20_RegistryEmptyAfterReturn ==
    \A c \in ReleaseCalls :
        (releases[c].event # NoEvent /\ releases[c].pc \in {"awaitTrigger", "done"})
        => getActionStatus(releases[c].pendingActions,
                           ActionId(releases[c].event.escrowId,
                                    releases[c].event.timestamp)).isNull

\* ------------------------------------------------------------------------
\* C21: triggerAction never raises: whatever happens while it resolves
\* the endpoint, dispatches the call or awaits the confirmation, the call
\* that triggered it receives a result, confirmed or failed, and a failed
\* result carries an error detail; no error of the trigger ends executeRelease.
\* ------------------------------------------------------------------------
C21_TriggerNeverRaises ==
    \A c \in ReleaseCalls :
        (releases[c].event # NoEvent /\ releases[c].pc \in {"awaitTrigger", "done"})
        => /\ releases[c].error = ""
           /\ releases[c].cross.status \in {"confirmed", "failed"}
           /\ releases[c].cross.status = "failed" <=> releases[c].cross.error # ""
           /\ getRpcUrl(DefaultRelayerConfig, releases[c].event.targetChain).throws
                => releases[c].cross.status = "failed"

\* getRpcUrl has thrown inside triggerAction and executeRelease has received
\* the failed result with the error message.
C21_Witness ==
    \E c \in ReleaseCalls :
        /\ releases[c].pc = "awaitTrigger"
        /\ getRpcUrl(DefaultRelayerConfig, releases[c].event.targetChain).throws
        /\ releases[c].cross.status = "failed"
        /\ releases[c].cross.error = "Unsupported chain"

\* ------------------------------------------------------------------------
\* C22: generateProof fails with InvalidRequest and produces no
\* attestation when escrowId is empty or conditionData is missing or has no
\* entries; for every other request it returns an attestation.
\* ------------------------------------------------------------------------
WellFormedRequest(request) ==
    request.escrowId # EmptyStr /\ Len(request.conditionData) > 0

C22_InvalidRequestRejected ==
    \A i \in 1..Len(proofCalls) :
        IF WellFormedRequest(proofCalls[i].request)
        THEN /\ proofCalls[i].ok
             /\ proofCalls[i].proof # NoProof
             /\ proofCalls[i].proof.proof.b64json
        ELSE /\ ~proofCalls[i].ok
             /\ ErrorKind(proofCalls[i].error) = "InvalidRequest"
             /\ proofCalls[i].proof = NoProof

\* One call has been rejected for its empty escrowId, another for its empty
\* conditionData.
C22_Witness ==
    \E i, j \in 1..Len(proofCalls) :
        /\ proofCalls[i].request.escrowId = EmptyStr
        /\ proofCalls[i].error = "Escrow ID is required"
        /\ proofCalls[j].request.conditionData = <<>>
        /\ proofCalls[j].error = "Condition data is required"

\* ------------------------------------------------------------------------
\* C23: the circuit identifier is derived deterministically and
\* independently of the order of the conditions: two generateProof calls whose
\* condition lists are permutations of one another yield the same identifier,
\* and a call without conditions yields the generic identifier.
\* ------------------------------------------------------------------------
Count(seq, x) == Cardinality({i \in 1..Len(seq) : seq[i] = x})
IsPermutation(a, b) ==
    /\ Len(a) = Len(b)
    /\ \A i \in 1..Len(a) : Count(a, a[i]) = Count(b, a[i])

C23_CircuitIdOrderIndependent ==
    \A i, j \in 1..Len(proofCalls) :
        /\ (proofCalls[i].ok /\ proofCalls[j].ok
              /\ IsPermutation(proofCalls[i].request.conditions,
                               proofCalls[j].request.conditions))
           => proofCalls[i].proof.circuitId = proofCalls[j].proof.circuitId
        /\ (proofCalls[i].ok /\ proofCalls[i].request.conditions = <<>>)
           => proofCalls[i].proof.circuitId = <<"generic_escrow_v1">>

\* Two calls whose condition lists hold the same conditions in different
\* orders have returned the same circuit identifier.
C23_Witness ==
    \E i, j \in 1..Len(proofCalls) :
        /\ proofCalls[i].ok /\ proofCalls[j].ok
        /\ proofCalls[i].request.conditions # proofCalls[j].request.conditions
        /\ IsPermutation(proofCalls[i].request.conditions, proofCalls[j].request.conditions)
        /\ proofCalls[i].proof.circuitId = proofCalls[j].proof.circuitId
        /\ proofCalls[i].proof.circuitId = <<"circuit", "hash_lock", "oracle">>

\* ------------------------------------------------------------------------
\* C24: round trip: verifyProof applied to the attestation generateProof
\* returned for a request with a non-empty escrowId and non-empty
\* conditionData, with or without conditions, returns valid = true.
\* ------------------------------------------------------------------------
C24_RoundTrip ==
    /\ \A i \in 1..Len(proofCalls) :
          proofCalls[i].ok => ProofGeneratorVerifyProof(proofCalls[i].proof).valid
    /\ \A v \in 1..Len(verifyCalls) :
          verifyCalls[v].proof \in ReturnedProofs
          => verifyCalls[v].result.valid /\ ~verifyCalls[v].result.raised

\* verifyProof has returned valid = true for an attestation that
\* generateProof returned for a request with conditions.
C24_Witness ==
    \E i \in 1..Len(proofCalls), v \in 1..Len(verifyCalls) :
        /\ proofCalls[i].ok
        /\ proofCalls[i].request.conditions # <<>>
        /\ verifyCalls[v].proof = proofCalls[i].proof
        /\ verifyCalls[v].result.valid

\* ------------------------------------------------------------------------
\* C25: verifyProof returns valid = false for every attestation whose
\* proof payload embeds a circuit identifier other than the one the
\* attestation declares, whatever its verified flag says.
\* ------------------------------------------------------------------------
EmbedsOtherCircuit(proof) ==
    /\ ParseBase64Json(proof.proof).ok
    /\ ParseBase64Json(proof.proof).kind = "object"
    /\ ParseBase64Json(proof.proof).value.circuitId # proof.circuitId

C25_TamperedCircuitInvalid ==
    \A v \in 1..Len(verifyCalls) :
        EmbedsOtherCircuit(verifyCalls[v].proof) => ~verifyCalls[v].result.valid

\* verifyProof has returned valid = false for a returned attestation whose
\* embedded circuit identifier was changed and whose verified flag is true.
C25_Witness ==
    \E v \in 1..Len(verifyCalls) :
        /\ verifyCalls[v].proof \in UNION {Tampered(p) : p \in ReturnedProofs}
        /\ verifyCalls[v].proof.verified
        /\ ParseBase64Json(verifyCalls[v].proof.proof).value.circuitId = OtherCircuitId
        /\ EmbedsOtherCircuit(verifyCalls[v].proof)
        /\ ~verifyCalls[v].result.valid

\* ------------------------------------------------------------------------
\* C26: verifyProof never raises on a malformed attestation: when the
\* proof payload does not decode (no base64 JSON, or JSON that is no object)
\* it returns valid = false.
\* ------------------------------------------------------------------------
Undecodable(proof) ==
    ~ParseBase64Json(proof.proof).ok \/ ParseBase64Json(proof.proof).kind # "object"

C26_MalformedNeverRaises ==
    \A v \in 1..Len(verifyCalls) :
        /\ ~verifyCalls[v].result.raised
        /\ Undecodable(verifyCalls[v].proof) => ~verifyCalls[v].result.valid

\* verifyProof has returned valid = false for a proof string that is no
\* base64 JSON and for one that decodes to null.
C26_Witness ==
    \E v1, v2 \in 1..Len(verifyCalls) :
        /\ verifyCalls[v1].proof.proof = LiteralProof("not base64 json")
        /\ verifyCalls[v2].proof.proof = Base64JsonText("null")
        /\ ~verifyCalls[v1].result.valid /\ ~verifyCalls[v1].result.raised
        /\ ~verifyCalls[v2].result.valid /\ ~verifyCalls[v2].result.raised

\* ------------------------------------------------------------------------
\* C27: the public inputs of every generated attestation are exactly the
\* fields of (timestamp, escrowId, beneficiary, amount) that the witness
\* data supplies, in that order, a supplied 0 included.
\* ------------------------------------------------------------------------
RECURSIVE SuppliedPublic(_, _)
SuppliedPublic(conditionData, fields) ==
    IF fields = <<>> THEN <<>>
    ELSE (IF HasKey(conditionData, Head(fields))
          THEN <<toStringOf(Get(conditionData, Head(fields)))>> ELSE <<>>)
         \o SuppliedPublic(conditionData, Tail(fields))

C27_PublicInputsExact ==
    \A i \in 1..Len(proofCalls) :
        proofCalls[i].ok =>
            proofCalls[i].proof.publicInputs =
                SuppliedPublic(proofCalls[i].request.conditionData, PublicFields)

\* ------------------------------------------------------------------------
\* C28: batchGenerateProofs returns one attestation per request, the i-th
\* for the i-th request, when every request is well-formed, and fails as a
\* whole, with no attestation, when one request is not.
\* ------------------------------------------------------------------------
AttestationFor(proof, request, t) ==
    /\ proof.circuitId = determineCircuitId(request.conditions)
    /\ proof.publicInputs = extractPublicInputs(request.conditionData)
    /\ \E nonce \in Nonces : proof = ProofOf(generateProof(request, t, nonce))

C28_BatchOrderedAllOrNothing ==
    \A b \in 1..Len(batchCalls) :
        LET requests == batchCalls[b].requests
            result == batchCalls[b].result
        IN IF \A i \in 1..Len(requests) : WellFormedRequest(requests[i])
           THEN /\ result.ok
                /\ Len(result.proofs) = Len(requests)
                /\ \A i \in 1..Len(requests) :
                      AttestationFor(result.proofs[i], requests[i], batchCalls[b].t)
           ELSE ~result.ok /\ result.proofs = <<>>

\* One batch of two different well-formed requests has returned its two
\* attestations, and one batch with a well-formed and an invalid request has
\* failed.
C28_Witness ==
    \E b1, b2 \in 1..Len(batchCalls) :
        /\ Len(batchCalls[b1].requests) = 2
        /\ batchCalls[b1].requests[1] # batchCalls[b1].requests[2]
        /\ batchCalls[b1].result.ok
        /\ Len(batchCalls[b1].result.proofs) = 2
        /\ batchCalls[b1].result.proofs[1] # batchCalls[b1].result.proofs[2]
        /\ Len(batchCalls[b2].requests) = 2
        /\ WellFormedRequest(batchCalls[b2].requests[1])
        /\ ~WellFormedRequest(batchCalls[b2].requests[2])
        /\ ~batchCalls[b2].result.ok
        /\ batchCalls[b2].result.proofs = <<>>

\* ------------------------------------------------------------------------
\* C29: witness privacy: two generateProof calls made at the same time
\* whose requests agree on escrowId, on conditions and on the four public
\* fields of conditionData return the same proof bytes and the same public
\* inputs, whatever their private fields.
\* ------------------------------------------------------------------------
RECURSIVE PublicProjection(_)
PublicProjection(conditionData) ==
    IF conditionData = <<>> THEN <<>>
    ELSE (IF Head(conditionData)[1] \in {PublicFields[k] : k \in 1..Len(PublicFields)}
          THEN <<Head(conditionData)>> ELSE <<>>)
         \o PublicProjection(Tail(conditionData))

AgreeOnPublic(r1, r2) ==
    /\ r1.escrowId = r2.escrowId
    /\ r1.conditions = r2.conditions
    /\ Keys(r1.conditionData) = Keys(r2.conditionData)
    /\ PublicProjection(r1.conditionData) = PublicProjection(r2.conditionData)

C29_WitnessPrivacy ==
    \A i, j \in 1..Len(proofCalls) :
        ( /\ proofCalls[i].ok /\ proofCalls[j].ok
          /\ proofCalls[i].t = proofCalls[j].t
          /\ AgreeOnPublic(proofCalls[i].request, proofCalls[j].request) )
        => /\ proofCalls[i].proof.proof = proofCalls[j].proof.proof
           /\ proofCalls[i].proof.publicInputs = proofCalls[j].proof.publicInputs

\* ------------------------------------------------------------------------
\* C30: checkCondition equals the reference predicate of the condition's
\* variant (TimeLock by the time the caller supplies, HashLock by the
\* presence of a preimage in the witness data, ...) and its result depends
\* on the condition and the witness data only.
\* ------------------------------------------------------------------------
ReferenceEvaluate(condition, data) ==
    CASE condition.type = "TIME_LOCK" ->
           /\ HasKey(data, "currentTime")
           /\ ~DateGetTime(condition.unlockAfter).nan
           /\ Get(data, "currentTime").n >= DateGetTime(condition.unlockAfter).time
      [] condition.type = "ORACLE" -> HasKey(data, "oracleValue")
      [] condition.type = "MULTI_SIG" ->
           Len(condition.currentSignatures) >= condition.required
      [] condition.type = "HASH_LOCK" -> HasKey(data, "preimage")
      [] condition.type = "GOVERNANCE_VOTE" ->
           HasKey(data, "voteApproved") /\ Get(data, "voteApproved") = Bool(TRUE)
      [] condition.type = "CUSTOM" ->
           HasKey(data, "proofVerified") /\ Get(data, "proofVerified") = Bool(TRUE)
      [] OTHER -> FALSE

C30_EvaluateIsReference ==
    /\ \A i \in 1..Len(checkCalls) :
          checkCalls[i].result =
              ReferenceEvaluate(checkCalls[i].condition, checkCalls[i].data)
    /\ \A i, j \in 1..Len(checkCalls) :
          ( /\ checkCalls[i].condition = checkCalls[j].condition
            /\ checkCalls[i].data = checkCalls[j].data )
          => checkCalls[i].result = checkCalls[j].result

\* ------------------------------------------------------------------------
\* C31: validateCondition returns true exactly when the mandatory fields of
\* the condition's variant are well-formed (Custom: circuitId and inputs),
\* and false for every other condition, an unknown type tag included.
\* ------------------------------------------------------------------------
MandatoryFieldsWellFormed(condition) ==
    CASE condition.type = "TIME_LOCK" -> condition.unlockAfter # ""
      [] condition.type = "ORACLE" -> condition.source # "" /\ condition.condition # ""
      [] condition.type = "MULTI_SIG" ->
           condition.required > 0 /\ Len(condition.signers) >= condition.required
      [] condition.type = "HASH_LOCK" -> condition.hash # "" /\ condition.hashAlgorithm # ""
      [] condition.type = "GOVERNANCE_VOTE" ->
           condition.proposalId # "" /\ condition.threshold # ""
      [] condition.type = "CUSTOM" -> condition.circuitId # "" /\ condition.inputs.given
      [] OTHER -> FALSE

C31_ValidateExact ==
    \A i \in 1..Len(validateCalls) :
        validateCalls[i].result = MandatoryFieldsWellFormed(validateCalls[i].condition)

\* What holds of validateCondition: the same with Custom judged by its
\* circuitId alone.
C31_ValidateExactButCustomInputs ==
    \A i \in 1..Len(validateCalls) :
        LET condition == validateCalls[i].condition
        IN validateCalls[i].result =
              IF condition.type = "CUSTOM" THEN condition.circuitId # ""
              ELSE MandatoryFieldsWellFormed(condition)

\* ------------------------------------------------------------------------
\* C34: every condition Conditions.multiSig returns has
\* 0 < required <= signers.length and passes validateCondition, and the
\* builder fails for every other pair of arguments.
\* ------------------------------------------------------------------------
C34_MultiSigBuilderBounds ==
    \A i \in 1..Len(multiSigCalls) :
        LET call == multiSigCalls[i]
        IN IF 0 < call.required /\ call.required <= Len(call.signers)
           THEN /\ ~call.result.throws
                /\ call.result.condition = MultiSig(call.required, call.signers)
                /\ validateCondition(call.result.condition)
           ELSE call.result.throws

\* What holds of the builder: it fails exactly when required exceeds the
\* number of signers.
C34_MultiSigBuilderUpperBoundOnly ==
    \A i \in 1..Len(multiSigCalls) :
        LET call == multiSigCalls[i]
        IN /\ call.result.throws <=> call.required > Len(call.signers)
           /\ ~call.result.throws =>
                 /\ call.result.condition = MultiSig(call.required, call.signers)
                 /\ validateCondition(call.result.condition) <=> call.required > 0

\* ------------------------------------------------------------------------
\* C32: within every executeRelease execution the ledger spend is confirmed
\* before the status becomes released and the action trigger is dispatched
\* only after the status is released; no state shows an escrow released
\* (refunded) whose ledger spend (refund) has not completed.
\* ------------------------------------------------------------------------
\* The call dispatches its trigger in this step.
DispatchesTrigger(c) == releases[c].event = NoEvent /\ releases'[c].event # NoEvent

C32_StatusAfterSpendBeforeTrigger ==
    /\ [](\A e \in Objects :
             /\ heap[e].status = "released" =>
                   \E c \in ReleaseCalls : releases[c].escrow = e /\ SpendConfirmed(c)
             /\ heap[e].status = "refunded" => refunds[e] > 0
             /\ triggers[e] > 0 => heap[e].status = "released")
    /\ [][\A c \in ReleaseCalls :
             /\ (releases[c].pc = "awaitVerify" /\ releases'[c].pc = "awaitSpend") =>
                   heap'[releases[c].escrow].status = heap[releases[c].escrow].status
             /\ DispatchesTrigger(c) =>
                   /\ releases[c].pc = "awaitSpend"
                   /\ releases[c].btcTxId # EmptyStr
                   /\ heap'[releases[c].escrow].status = "released"]_vars

\* A call has been resumed after its spend, has released its escrow and
\* waits for the trigger it dispatched.
C32_Witness ==
    \E d \in ReleaseCalls :
        /\ releases[d].pc = "awaitChain"
        /\ releases[d].btcTxId # EmptyStr
        /\ heap[releases[d].escrow].status = "released"
        /\ spends[releases[d].escrow] = 1
        /\ triggers[releases[d].escrow] = 1

\* ------------------------------------------------------------------------
\* C33: every executeRelease call that has passed the state guard
\* eventually completes, the ledger and the remote environment answering:
\* it ends with a returned result and the escrow released, or with a raised
\* error and the escrow still active; no call stays pending for ever and no
\* escrow is left in an intermediate status.
\* ------------------------------------------------------------------------
InFlight(c) == c \in ReleaseCalls /\ releases[c].pc # "done"
Completed(c) == c \in ReleaseCalls /\ releases[c].pc = "done"
\* The call ends in this step.
Ends(c) == releases[c].pc # "done" /\ releases'[c].pc = "done"

C33_ReleaseCompletes ==
    /\ \A c \in 1..MaxCalls : InFlight(c) ~> Completed(c)
    /\ [](\A e \in Objects : heap[e].status \in {"active", "released", "refunded"})
    /\ [][\A c \in ReleaseCalls :
             (PassedGuard(c) /\ Ends(c)) =>
                 \/ releases'[c].error = "" /\ heap'[releases[c].escrow].status = "released"
                 \/ releases'[c].error # "" /\ heap'[releases[c].escrow].status = "active"]_vars

\* What holds: every call in flight completes, no status is intermediate,
\* a call that returns a result leaves its escrow released and a call that
\* raises has not touched the status.
C33_ReleaseTerminates ==
    /\ \A c \in 1..MaxCalls : InFlight(c) ~> Completed(c)
    /\ [](\A e \in Objects : heap[e].status \in {"active", "released", "refunded"})
    /\ [][\A c \in ReleaseCalls :
             (PassedGuard(c) /\ Ends(c)) =>
                 \/ releases'[c].error = "" /\ heap'[releases[c].escrow].status = "released"
                 \/ releases'[c].error # "" /\ heap' = heap]_vars

\* ------------------------------------------------------------------------
\* C35: the conditions, timeout, beneficiary, amount and action descriptor
\* attached to a stored escrow never change after createEscrow returns, and
\* a caller that later writes to the params object it passed, or to the
\* record getEscrow returned, does not change what refundEscrow and
\* executeRelease use for that escrow.
\* ------------------------------------------------------------------------
\* The parameters createEscrow was given for the Escrow object e.
Attached(e) == creates[heap[e].params].given

C35_AttachedParamsImmutable ==
    /\ [](\A e \in Objects : ParamsOf(e) = Attached(e))
    /\ [][/\ (lastRefund'.called = lastRefund.called + 1 /\ lastRefund'.error = "") =>
               now - heap[escrows[lastRefund'.escrowId]].createdAt
                   >= TimeoutOf(Attached(escrows[lastRefund'.escrowId]))
          /\ \A c \in ReleaseCalls :
               /\ DispatchesTrigger(c) =>
                     /\ Attached(releases[c].escrow).crossChainAction.given
                     /\ releases'[c].event.targetChain =
                            Attached(releases[c].escrow).crossChainAction.chain
               /\ (releases[c].pc = "awaitSpend" /\ releases'[c].pc = "done") =>
                     ~Attached(releases[c].escrow).crossChainAction.given]_vars

\* The part on refundEscrow alone: a refund succeeds only when the timeout
\* createEscrow was given has elapsed.
C35_RefundUsesAttachedTimeout ==
    [][(lastRefund'.called = lastRefund.called + 1 /\ lastRefund'.error = "") =>
          now - heap[escrows[lastRefund'.escrowId]].createdAt
              >= TimeoutOf(Attached(escrows[lastRefund'.escrowId]))]_vars

\* The part on executeRelease alone: the trigger goes to the chain of the
\* action createEscrow was given, and to none when it was given none.
C35_ReleaseUsesAttachedAction ==
    [][\A c \in ReleaseCalls :
          /\ DispatchesTrigger(c) =>
                /\ Attached(releases[c].escrow).crossChainAction.given
                /\ releases'[c].event.targetChain =
                       Attached(releases[c].escrow).crossChainAction.chain
          /\ (releases[c].pc = "awaitSpend" /\ releases'[c].pc = "done") =>
                ~Attached(releases[c].escrow).crossChainAction.given]_vars

\* ------------------------------------------------------------------------
\* C36: executeWithProof(proof), called without an escrow id, releases
\* exactly the escrow whose id was given as conditionData.escrowId when the
\* proof was generated, for every attestation generateProof produced; when
\* verifyProof rejects the proof it fails without calling executeRelease
\* and without changing any escrow.
\* ------------------------------------------------------------------------
FacadeCallsMade == 1..Len(facadeCalls)
\* The generateProof calls that returned this attestation.
GeneratedBy(proof) == {i \in 1..Len(proofCalls) : proofCalls[i].ok /\ proofCalls[i].proof = proof}
SuppliedEscrowId(i) == toStringOf(Get(proofCalls[i].request.conditionData, "escrowId"))

C36_ExecuteWithProofTargetsSuppliedEscrow ==
    /\ [](\A f \in FacadeCallsMade : \A i \in GeneratedBy(facadeCalls[f].proof) :
             /\ facadeCalls[f].valid
             /\ facadeCalls[f].release # 0
             /\ releases[facadeCalls[f].release].escrowId = SuppliedEscrowId(i)
             /\ releases[facadeCalls[f].release].escrow = escrows[SuppliedEscrowId(i)])
    /\ [](\A f \in FacadeCallsMade :
             ~facadeCalls[f].valid => facadeCalls[f].release = 0 /\ facadeCalls[f].error # "")
    /\ [][(Len(facadeCalls') = Len(facadeCalls) + 1 /\ ~facadeCalls'[Len(facadeCalls')].valid)
             => releases' = releases /\ heap' = heap /\ escrows' = escrows]_vars

\* What holds: the attestations generated from conditionData whose timestamp
\* is present and not 0 lead to the escrow of conditionData.escrowId, and a
\* rejected proof leads to no executeRelease call and no change.
C36_TargetsSuppliedEscrowGivenTimestamp ==
    /\ [](\A f \in FacadeCallsMade : \A i \in GeneratedBy(facadeCalls[f].proof) :
             (/\ HasKey(proofCalls[i].request.conditionData, "timestamp")
              /\ Truthy(Get(proofCalls[i].request.conditionData, "timestamp")))
             => /\ facadeCalls[f].valid
                /\ facadeCalls[f].release # 0
                /\ releases[facadeCalls[f].release].escrowId = SuppliedEscrowId(i)
                /\ releases[facadeCalls[f].release].escrow = escrows[SuppliedEscrowId(i)])
    /\ [](\A f \in FacadeCallsMade :
             ~facadeCalls[f].valid => facadeCalls[f].release = 0 /\ facadeCalls[f].error # "")
    /\ [][(Len(facadeCalls') = Len(facadeCalls) + 1 /\ ~facadeCalls'[Len(facadeCalls')].valid)
             => releases' = releases /\ heap' = heap /\ escrows' = escrows]_vars

\* An attestation generated with a timestamp has released its escrow through
\* executeWithProof.
C36_ReleasedThroughFacade ==
    \E f \in FacadeCallsMade : \E i \in GeneratedBy(facadeCalls[f].proof) :
        /\ facadeCalls[f].release # 0
        /\ Succeeded(facadeCalls[f].release)
        /\ heap[escrows[SuppliedEscrowId(i)]].status = "released"
\* A proof that verifyProof rejects has been passed to executeWithProof.
C36_RejectedByFacade ==
    \E f \in FacadeCallsMade : ~facadeCalls[f].valid /\ facadeCalls[f].release = 0

\* ------------------------------------------------------------------------
\* BitLogicTrigger: one action per escrowId, a fresh token id
\* ------------------------------------------------------------------------
\* The token ids that exist.
MintedTokens == {tokenId \in ReceiverTokenIds : trigger.owners[tokenId] # ZeroAddress}

OncePerEscrowId ==
    \A escrowId \in ReceiverEscrowIds :
        /\ receiver.returned[escrowId] <= 1
        /\ receiver.minted[escrowId] <= 1
        /\ receiver.returned[escrowId] >= 1 => isEscrowProcessed(trigger, escrowId)

ProcessedReverts ==
    (/\ receiver.last.fn \in {"onEscrowReleased", "executeAction"}
     /\ receiver.last.processed) => ~receiver.last.ok

StaysProcessed ==
    \A escrowId \in ReceiverEscrowIds :
        isEscrowProcessed(trigger, escrowId) => isEscrowProcessed(trigger', escrowId)

\* C37: for each escrowId at most one call among onEscrowReleased and
\* executeAction ever returns, and at most one NFT is minted for it through
\* onEscrowReleased; once one has returned, isEscrowProcessed(escrowId) is
\* true in every later state and every further onEscrowReleased or
\* executeAction transaction with that escrowId reverts.
C37_OneActionPerEscrowId ==
    /\ [](OncePerEscrowId /\ ProcessedReverts)
    /\ [][StaysProcessed]_vars

\* The same, as long as no receiving contract has called back into the
\* trigger from onERC721Received.
C37_OneActionPerEscrowIdWithoutReentry ==
    /\ [](receiver.reentries = 0 => OncePerEscrowId)
    /\ []ProcessedReverts
    /\ [][StaysProcessed]_vars

\* An escrowId processed by one transaction, and a later transaction with it
\* that reverted.
C37_SecondCallReverted ==
    /\ receiver.last.fn \in {"onEscrowReleased", "executeAction"}
    /\ receiver.last.processed
    /\ receiver.last.authorized
    /\ ~receiver.last.ok
    /\ receiver.returned[receiver.last.escrowId] = 1

\* Two calls returned for one escrowId.
C37_TwoCallsReturned == \E escrowId \in ReceiverEscrowIds : receiver.returned[escrowId] = 2

\* The latest transaction is onEscrowReleased by an authorized relayer for an
\* escrowId not processed before, to a beneficiary that is not the zero
\* address and accepts the token.
ReleaseShouldSucceed ==
    /\ receiver.last.fn = "onEscrowReleased"
    /\ receiver.last.authorized
    /\ ~receiver.last.processed
    /\ receiver.last.beneficiary # ZeroAddress
    /\ receiver.last.reaction = Accept

\* C38: the token id counter's current value is a token id that has not been
\* minted, totalMinted() is the number of tokens minted, and onEscrowReleased
\* by an authorized relayer for a not-yet-processed escrowId and a valid
\* beneficiary succeeds.
C38_CounterIsFreshTokenId ==
    /\ trigger.owners[trigger.tokenIdCounter] = ZeroAddress
    /\ totalMinted(trigger) = Cardinality(MintedTokens)
    /\ ReleaseShouldSucceed => receiver.last.ok

\* The same, while every token that exists was minted from the counter.
C38_CounterIsFreshWhileMintedFromCounter ==
    MintedTokens = 0..(trigger.tokenIdCounter - 1) =>
        /\ trigger.owners[trigger.tokenIdCounter] = ZeroAddress
        /\ totalMinted(trigger) = Cardinality(MintedTokens)

\* onEscrowReleased that should succeed reverted on a minted counter value.
C38_ReleaseRevertedOnMintedId ==
    /\ ReleaseShouldSucceed
    /\ ~receiver.last.ok
    /\ trigger.owners[trigger.tokenIdCounter] # ZeroAddress

====
